---- MODULE Spec2Model ----
(***************************************************************************)
(* eHealth data pipeline: the incremental NIH load (part2_pipeline), the   *)
(* star-schema warehouse population (part3_analytics) and the operational  *)
(* store they share.  Identifiers are sequences of one-character strings,  *)
(* so that the id formatting (zfill, prefix/suffix) and the warehouse key  *)
(* mapping (strip non-digits, cast to integer) are computed, not assumed.  *)
(* Dates are day ordinals; YYYYMMDD keys are computed from the calendar.   *)
(***************************************************************************)
EXTENDS Integers, Sequences, FiniteSets, TLC

(***************************************************************************)
(* Bounds of the model                                                     *)
(***************************************************************************)
\* longest input file (records in nih_with_reports.csv)
MaxRecords == 3
\* records per batch transaction (config.BATCH_SIZE, scaled down)
BATCH_SIZE == 2
\* runs (run-load or run-transform, in any order) per behaviour
MaxRuns == 2
\* runs per behaviour that end by raising
MaxRaises == 1

(***************************************************************************)
(* Strings                                                                 *)
(***************************************************************************)
Digits == <<"0", "1", "2", "3", "4", "5", "6", "7", "8", "9">>

IsDigit(c) == \E i \in 1..10 : Digits[i] = c

DigitVal(c) == (CHOOSE i \in 1..10 : Digits[i] = c) - 1

\* str(n) for a natural number
RECURSIVE NatToStr(_)
NatToStr(n) == IF n < 10 THEN <<Digits[n + 1]>>
               ELSE NatToStr(n \div 10) \o <<Digits[(n % 10) + 1]>>

\* int(s) for a string of digits
RECURSIVE DigitsToInt(_)
DigitsToInt(s) == IF s = <<>> THEN 0
                  ELSE 10 * DigitsToInt(SubSeq(s, 1, Len(s) - 1)) + DigitVal(s[Len(s)])

\* str.zfill(w)
RECURSIVE zfill(_, _)
zfill(s, w) == IF Len(s) >= w THEN s ELSE zfill(<<"0">> \o s, w)

StartsWith(s, p) == Len(s) >= Len(p) /\ SubSeq(s, 1, Len(p)) = p

\* str.replace(p, '')
RECURSIVE replace(_, _)
replace(s, p) == IF s = <<>> THEN <<>>
                 ELSE IF StartsWith(s, p) THEN replace(SubSeq(s, Len(p) + 1, Len(s)), p)
                 ELSE <<Head(s)>> \o replace(Tail(s), p)

\* REGEXP_REPLACE(s, '\D', '', 'g')
RECURSIVE REGEXP_REPLACE(_)
REGEXP_REPLACE(s) == IF s = <<>> THEN <<>>
                     ELSE (IF IsDigit(Head(s)) THEN <<Head(s)>> ELSE <<>>) \o REGEXP_REPLACE(Tail(s))

\* CAST(REGEXP_REPLACE(id, '\D', '', 'g') AS INTEGER)
KeyToInt(id) == DigitsToInt(REGEXP_REPLACE(id))

\* collation order of the characters that occur in patient ids
CharRank(c) == IF IsDigit(c) THEN DigitVal(c)
               ELSE IF c = "A" THEN 10 ELSE IF c = "P" THEN 11 ELSE IF c = "T" THEN 12 ELSE 13

RECURSIVE StrLess(_, _)
StrLess(a, b) == IF b = <<>> THEN FALSE
                 ELSE IF a = <<>> THEN TRUE
                 ELSE IF Head(a) = Head(b) THEN StrLess(Tail(a), Tail(b))
                 ELSE CharRank(Head(a)) < CharRank(Head(b))

PNG == <<".", "p", "n", "g">>
PAT == <<"P", "A", "T">>
ENC == <<"E", "N", "C">>
DIAG == <<"D", "I", "A", "G">>
FAC == <<"F", "A", "C">>
CPT == <<"C", "P", "T">>
NIH_ == <<"N", "I", "H", "_">>
_ENC == <<"_", "E", "N", "C">>

(***************************************************************************)
(* Calendar: a date is the number of days since 1 January of EpochYear     *)
(***************************************************************************)
EpochYear == 2022

IsLeap(y) == (y % 4 = 0 /\ y % 100 # 0) \/ y % 400 = 0

DaysInYear(y) == IF IsLeap(y) THEN 366 ELSE 365

DaysInMonth(y, m) == IF m = 2 THEN (IF IsLeap(y) THEN 29 ELSE 28)
                     ELSE IF m \in {4, 6, 9, 11} THEN 30 ELSE 31

RECURSIVE YearOf(_, _)
YearOf(n, y) == IF n < DaysInYear(y) THEN <<y, n>> ELSE YearOf(n - DaysInYear(y), y + 1)

RECURSIVE MonthOf(_, _, _)
MonthOf(n, y, m) == IF n < DaysInMonth(y, m) THEN <<m, n + 1>>
                    ELSE MonthOf(n - DaysInMonth(y, m), y, m + 1)

\* four consecutive years from 1901 to 2099 have 1461 days
FourYears == 1461

\* the calendar date of a day ordinal (a date from 1901 to 2099)
CalendarDate(n) == LET yn == YearOf(n % FourYears, EpochYear + 4 * (n \div FourYears))
                       md == MonthOf(yn[2], yn[1], 1)
                   IN  [year |-> yn[1], month |-> md[1], day |-> md[2]]

RECURSIVE DaysFromTo(_, _)
DaysFromTo(y0, y) == IF y = y0 THEN 0 ELSE DaysFromTo(y0, y - 1) + DaysInYear(y - 1)

DaysBeforeYear(y) == LET c == (y - EpochYear) \div 4
                     IN  (c * FourYears) + DaysFromTo(EpochYear + 4 * c, y)

RECURSIVE DaysBeforeMonth(_, _)
DaysBeforeMonth(y, m) == IF m = 1 THEN 0 ELSE DaysBeforeMonth(y, m - 1) + DaysInMonth(y, m - 1)

\* the day ordinal of a calendar date
Ordinal(y, m, d) == DaysBeforeYear(y) + DaysBeforeMonth(y, m) + (d - 1)

\* int(current_date.strftime('%Y%m%d'))
strftime_Ymd(n) == LET c == CalendarDate(n)
                   IN  DigitsToInt(zfill(NatToStr(c.year), 4) \o zfill(NatToStr(c.month), 2)
                                   \o zfill(NatToStr(c.day), 2))

\* variant: day and month exchanged in the format
TO_CHAR_YYYYDDMM(n) == LET c == CalendarDate(n)
                       IN  (c.year * 10000) + (c.day * 100) + c.month

\* TO_CHAR(e.encounter_date, 'YYYYMMDD')::INTEGER
TO_CHAR_YYYYMMDD(n) == LET c == CalendarDate(n)
                       IN  (c.year * 10000) + (c.month * 100) + c.day

\* datetime.now().date() of the run
Today == Ordinal(2024, 3, 2)

(***************************************************************************)
(* Configuration (part2_pipeline/config.py) and generator sizes            *)
(***************************************************************************)
NUM_PATIENTS == 5000
NUM_ENCOUNTERS == 15000

\* label -> ICD-10 code
NIH_TO_ICD10_MAPPING ==
    [l \in {"Atelectasis", "Cardiomegaly", "Effusion", "Infiltration", "Mass", "Nodule",
            "Pneumonia", "Pneumothorax", "Consolidation", "Edema", "Emphysema", "Fibrosis",
            "Pleural_Thickening", "Hernia", "No Finding"} |->
        CASE l = "Atelectasis" -> "J98.11"
          [] l = "Cardiomegaly" -> "I51.7"
          [] l = "Effusion" -> "J94.8"
          [] l = "Infiltration" -> "J98.4"
          [] l = "Mass" -> "D49.2"
          [] l = "Nodule" -> "R91.8"
          [] l = "Pneumonia" -> "J18.9"
          [] l = "Pneumothorax" -> "J93.0"
          [] l = "Consolidation" -> "J18.1"
          [] l = "Edema" -> "J81.0"
          [] l = "Emphysema" -> "J43.9"
          [] l = "Fibrosis" -> "J84.9"
          [] l = "Pleural_Thickening" -> "J94.8"
          [] l = "Hernia" -> "K44.9"
          [] l = "No Finding" -> "R91.8"]

(***************************************************************************)
(* The input file nih_with_reports.csv                                     *)
(***************************************************************************)
\* file names of the NIH feed: <patient, 8 digits>_<follow-up, 3 digits>.png
ImageIndex(p, f) == zfill(NatToStr(p), 8) \o <<"_">> \o zfill(NatToStr(f), 3) \o PNG

\* the rows an input file is made of: two studies of patient 1 taken a year
\* apart (the feed records the age at each study) and one study of patient 2
CsvRows ==
    { [Image_Index |-> ImageIndex(1, 0), Patient_ID |-> 1, Patient_Age |-> 58,
       Patient_Gender |-> "M",
       Finding_Labels |-> <<"Effusion", "|", "Pleural_Thickening", "|", "Emphysema", "|",
                            "Pneumonia">>],
      [Image_Index |-> ImageIndex(1, 1), Patient_ID |-> 1, Patient_Age |-> 59,
       Patient_Gender |-> "M", Finding_Labels |-> <<"Cardiomegaly", "|", "Effusion">>],
      [Image_Index |-> ImageIndex(2, 0), Patient_ID |-> 2, Patient_Age |-> 81,
       Patient_Gender |-> "F", Finding_Labels |-> <<"No Finding">>] }

RECURSIVE SeqsUpTo(_, _)
SeqsUpTo(S, n) == IF n = 0 THEN {<<>>}
                  ELSE SeqsUpTo(S, n - 1) \cup
                       {Append(s, x) : s \in {t \in SeqsUpTo(S, n - 1) : Len(t) = n - 1}, x \in S}

CsvFiles == SeqsUpTo(CsvRows, MaxRecords)

\* random.seed(42) at import fixes the stream random.randint(0, 730) draws
\* from: the i-th row of df always gets the i-th draw.  The draws stand in
\* for the seeded ones and lie within a few days, to keep the calendar short.
RandomDays == <<728, 730, 727>>

\* start_date + timedelta(days=random.randint(0, 730)) of the i-th row
encounter_datetime(i) == (Today - 730) + RandomDays[((i - 1) % Len(RandomDays)) + 1]

(***************************************************************************)
(* The store after generate_synthetic_data.py, restricted to a sample of   *)
(* the generated rows: the first and last patient, encounter 1000 and the  *)
(* last encounter (the only one the generator gives procedures), part of   *)
(* the diagnosis catalog and two facilities                                *)
(***************************************************************************)
generate_facilities ==
    { [facility_id |-> FAC \o zfill(NatToStr(1), 6), facility_type |-> "Hospital"],
      [facility_id |-> FAC \o zfill(NatToStr(2), 6), facility_type |-> "Clinic"] }

generate_diagnoses ==
    { [diagnosis_id |-> DIAG \o <<"0", "0", "1">>, diagnosis_code |-> "J18.9"],
      [diagnosis_id |-> DIAG \o <<"0", "2", "9">>, diagnosis_code |-> "R91.8"],
      [diagnosis_id |-> DIAG \o <<"0", "3", "5">>, diagnosis_code |-> "J43.9"],
      [diagnosis_id |-> DIAG \o <<"0", "3", "7">>, diagnosis_code |-> "J94.8"] }

\* age = random.randint(0, 95) and random.randint(0, 364) of the sampled
\* patients: dob = now - timedelta(days=age*365 + random.randint(0, 364))
GeneratedAge(i) == IF i = 1 THEN <<40, 100>> ELSE IF i = 2 THEN <<30, 7>> ELSE <<17, 364>>

\* patient 2 is one of the patients random.choice(patient_ids) never draws:
\* it has no encounter
generate_patients ==
    { [patient_id |-> PAT \o zfill(NatToStr(i), 7), gender |-> IF i = 1 THEN "F" ELSE "Other",
       date_of_birth |-> Today - (GeneratedAge(i)[1] * 365 + GeneratedAge(i)[2]),
       contact_email |-> <<"fake.email", i>>] : i \in {1, 2, NUM_PATIENTS} }

generate_encounters ==
    { [encounter_id |-> ENC \o zfill(NatToStr(1000), 8),
       patient_id |-> PAT \o zfill(NatToStr(1), 7),
       facility_id |-> FAC \o zfill(NatToStr(2), 6),
       encounter_date |-> Today - 4],
      [encounter_id |-> ENC \o zfill(NatToStr(NUM_ENCOUNTERS), 8),
       patient_id |-> PAT \o zfill(NatToStr(NUM_PATIENTS), 7),
       facility_id |-> FAC \o zfill(NatToStr(1), 6),
       encounter_date |-> Today - 1] }

generate_procedures ==
    { [procedure_id |-> i, encounter_id |-> ENC \o zfill(NatToStr(NUM_ENCOUNTERS), 8),
       procedure_code |-> CPT \o NatToStr(70000 + i)] : i \in 1..2 }

generate_encounter_diagnoses ==
    { [encounter_id |-> ENC \o zfill(NatToStr(1000), 8),
       diagnosis_id |-> DIAG \o <<"0", "0", "1">>, diagnosis_rank |-> 1, is_primary |-> TRUE],
      [encounter_id |-> ENC \o zfill(NatToStr(NUM_ENCOUNTERS), 8),
       diagnosis_id |-> DIAG \o <<"0", "2", "9">>, diagnosis_rank |-> 1, is_primary |-> TRUE],
      [encounter_id |-> ENC \o zfill(NatToStr(NUM_ENCOUNTERS), 8),
       diagnosis_id |-> DIAG \o <<"0", "3", "7">>, diagnosis_rank |-> 2, is_primary |-> FALSE] }

generate_reports ==
    { [report_id |-> p.procedure_id, encounter_id |-> p.encounter_id] : p \in generate_procedures }

\* the schema after create_schema.py: every table exists and is empty
EmptyStore ==
    [facilities |-> {}, diagnoses |-> {}, patients |-> {}, encounters |-> {},
     procedures |-> {}, encounter_diagnoses |-> {}, reports |-> {},
     dim_time |-> {}, dim_patient |-> {}, dim_procedure |-> {}, dim_diagnosis |-> {},
     fact_encounters |-> {}, bridge_encounter_procedures |-> {},
     bridge_encounter_diagnoses |-> {}]

\* only the reference tables filled (facilities, diagnoses)
ReferenceStore ==
    [EmptyStore EXCEPT !.facilities = generate_facilities, !.diagnoses = generate_diagnoses]

\* the store after the whole generator ran
SyntheticStore ==
    [ReferenceStore EXCEPT !.patients = generate_patients,
                           !.encounters = generate_encounters,
                           !.procedures = generate_procedures,
                           !.encounter_diagnoses = generate_encounter_diagnoses,
                           !.reports = generate_reports]

\* an operational store written in the generator's formats: patient 1 seen
\* on 2024-01-01 and 2024-01-03, patient 2 on 2024-01-02, each encounter with
\* one procedure and one primary diagnosis; patient 1 had the same procedure
\* (one procedure_code) at both encounters
ScenarioStore ==
    [ReferenceStore EXCEPT
        !.patients = { [patient_id |-> PAT \o zfill(NatToStr(i), 7),
                        gender |-> IF i = 1 THEN "F" ELSE "M",
                        date_of_birth |-> Ordinal(1988 - (30 * i), 1 + i, 2),
                        contact_email |-> <<"fake.email", i>>] : i \in 1..2 },
        !.encounters = { [encounter_id |-> ENC \o zfill(NatToStr(i), 8),
                          patient_id |-> PAT \o zfill(NatToStr(IF i = 2 THEN 2 ELSE 1), 7),
                          facility_id |-> FAC \o zfill(NatToStr(1), 6),
                          encounter_date |-> Ordinal(2024, 1, i)] : i \in 1..3 },
        !.procedures = { [procedure_id |-> i,
                          encounter_id |-> ENC \o zfill(NatToStr(i), 8),
                          procedure_code |-> CPT \o NatToStr(IF i = 2 THEN 70002 ELSE 70001)] :
                            i \in 1..3 },
        !.encounter_diagnoses = { [encounter_id |-> ENC \o zfill(NatToStr(i), 8),
                                   diagnosis_id |-> DIAG \o <<"0", "0", "1">>,
                                   diagnosis_rank |-> 1, is_primary |-> TRUE] : i \in 1..3 }]

InitialStores == {EmptyStore, ReferenceStore, SyntheticStore, ScenarioStore}

OperationalTables == {"facilities", "diagnoses", "patients", "encounters", "procedures",
                      "encounter_diagnoses", "reports"}

WarehouseTables == {"dim_time", "dim_patient", "dim_procedure", "dim_diagnosis",
                    "fact_encounters", "bridge_encounter_procedures",
                    "bridge_encounter_diagnoses"}

\* the value of a SERIAL column's sequence after the rows of a table
MaxOf(S) == IF S = {} THEN 0 ELSE CHOOSE x \in S : \A y \in S : y <= x

(***************************************************************************)
(* State                                                                   *)
(***************************************************************************)
VARIABLES
    csv,            \* the rows of nih_with_reports.csv
    db,             \* the committed content of every table
    tx,             \* the content seen on the open connection (db + uncommitted writes)
    seq,            \* last value of each SERIAL sequence (not transactional)
    pc,             \* position of the orchestrated run
    etl,            \* the NIH_ETL_Pipeline instance of the current or last run-load
    qa,             \* the WarehouseQA instance of the current or last run-qa
    first_resolved, \* external patient id -> patient_id of the first resolution
    pre,            \* db when the current or last run started
    hist,           \* the runs finished so far, oldest first
    other           \* the run-load process that is not taking the next step

vars == <<csv, db, tx, seq, pc, etl, qa, first_resolved, pre, hist, other>>

\* the tables _load_batch_optimized writes
LoadedTableNames == {"patients", "encounters", "procedures", "encounter_diagnoses", "reports"}

ZeroStats == [records_processed |-> 0, records_skipped |-> 0, patients_created |-> 0,
              encounters_created |-> 0, procedures_created |-> 0, diagnoses_assigned |-> 0,
              reports_created |-> 0]

None == [none |-> TRUE, rows |-> <<>>]

\* error: the exception a statement of the load raised by itself, if any
NoPipeline == [incremental |-> TRUE, stats |-> ZeroStats, diagnosis_cache |-> <<>>,
               facility_ids |-> {}, df |-> None, batch_num |-> 0, patient_map |-> <<>>,
               new_patients |-> <<>>, error |-> "none"]

\* a run-load process that is not the one taking the next step: its
\* pipeline object, its position, and the rows its open transaction has
\* written and not committed
Parked == [etl |-> NoPipeline, pc |-> "idle",
           delta |-> [t \in LoadedTableNames |-> {}]]

\* WarehouseQA.__init__: self.results = []; exception is the `e` of the last
\* except branch taken, written the summary write_summary() left
NoQA == [results |-> <<>>, exception |-> "none", written |-> <<>>]

Init ==
    /\ csv \in CsvFiles
    /\ db \in InitialStores
    /\ tx = db
    /\ seq = [procedure_id |-> MaxOf({p.procedure_id : p \in db.procedures}),
              report_id |-> MaxOf({r.report_id : r \in db.reports}),
              patient_key |-> 0, procedure_key |-> 0, diagnosis_key |-> 0,
              encounter_key |-> 0]
    /\ pc = "idle"
    /\ etl = NoPipeline
    /\ qa = NoQA
    /\ first_resolved = <<>>
    /\ pre = db
    /\ hist = <<>>
    /\ other = Parked

Raises == Len(SelectSeq(hist, LAMBDA h : h.outcome = "raised"))

Finished(op, incremental, outcome) ==
    hist' = Append(hist, [op |-> op, incremental |-> incremental, outcome |-> outcome])

(***************************************************************************)
(* DatabaseHelper (part2_pipeline/utils/db_helper.py)                      *)
(***************************************************************************)
\* procedure_code LIKE 'NIH_%': N, I, H, any one character, then anything
LikeNIH(code) == Len(code) >= 4 /\ SubSeq(code, 1, 3) = <<"N", "I", "H">>

\* variant: the key set read from the encounter_id column
get_existing_image_indices_WrongColumn(store) ==
    {e.encounter_id : e \in store.encounters}

get_existing_image_indices(store) ==
    {p.procedure_code : p \in {q \in store.procedures : LikeNIH(q.procedure_code)}}

\* variant: the failure path commits what the batch wrote so far
Rollback_Commits == db' = tx /\ tx' = tx

\* the except branch of get_connection: conn.rollback(); uncommitted writes
\* are dropped and the committed content stays
Rollback == tx' = db /\ db' = db

\* conn.commit()
Commit == db' = tx

(***************************************************************************)
(* NIH_ETL_Pipeline (part2_pipeline/utils/etl_pipeline.py)                 *)
(***************************************************************************)
_load_diagnosis_cache(store) ==
    [code \in {d.diagnosis_code : d \in store.diagnoses} |->
        (CHOOSE d \in store.diagnoses : d.diagnosis_code = code).diagnosis_id]

_load_facility_ids(store) ==
    {f.facility_id : f \in {g \in store.facilities : g.facility_type = "Hospital"}}

\* NIH_ETL_Pipeline(incremental) followed by the start of run(): extract
StartLoad(incremental) ==
    /\ pc = "idle"
    /\ Len(hist) < MaxRuns
    /\ etl' = [NoPipeline EXCEPT !.incremental = incremental,
                                 !.diagnosis_cache = _load_diagnosis_cache(db),
                                 !.facility_ids = _load_facility_ids(db)]
    /\ qa' = NoQA
    /\ pre' = db
    /\ pc' = "transform"
    /\ UNCHANGED <<other, csv, db, tx, seq, first_resolved, hist>>

\* str.split('|') of a tokenised Finding Labels field
RECURSIVE split(_)
split(s) ==
    IF s = <<>> THEN <<<<>>>>
    ELSE LET rest == split(Tail(s))
         IN  IF Head(s) = "|" THEN <<<<>>>> \o rest
             ELSE <<<<Head(s)>> \o Head(rest)>> \o Tail(rest)

\* the label of each piece of the split field ('' for an empty piece)
diagnosis_list(labels) ==
    [i \in 1..Len(split(labels)) |->
        IF split(labels)[i] = <<>> THEN "" ELSE split(labels)[i][1]]

nih_procedure_code(row) == NIH_ \o replace(row.Image_Index, PNG)

\* variant: the filter keeps the rows already loaded
df_new_Kept(df, existing_indices) ==
    SelectSeq(df, LAMBDA row : nih_procedure_code(row) \in existing_indices)

\* the set-difference of transform(): the rows whose key is not loaded yet
df_new(df, existing_indices) ==
    SelectSeq(df, LAMBDA row : nih_procedure_code(row) \notin existing_indices)

\* the columns transform() adds to a row
Transformed(row, date) ==
    [Image_Index |-> row.Image_Index, Patient_ID |-> row.Patient_ID,
     Patient_Age |-> row.Patient_Age, Patient_Gender |-> row.Patient_Gender,
     nih_procedure_code |-> nih_procedure_code(row), encounter_date |-> date,
     diagnosis_list |-> diagnosis_list(row.Finding_Labels)]

transform ==
    /\ pc = "transform"
    /\ LET existing_indices == IF etl.incremental THEN get_existing_image_indices(db) ELSE {}
           filtered == etl.incremental /\ existing_indices # {}
           df == IF filtered THEN df_new(csv, existing_indices) ELSE csv
           skipped == IF filtered THEN Len(csv) - Len(df) ELSE etl.stats.records_skipped
       IN  IF Len(df) = 0
           THEN \* return None; run() returns without loading
                /\ etl' = [etl EXCEPT !.stats.records_skipped = skipped, !.df = None]
                /\ pc' = "idle"
                /\ Finished("load", etl.incremental, "ok")
           ELSE /\ etl' = [etl EXCEPT !.stats.records_skipped = skipped,
                                      !.stats.records_processed = Len(df),
                                      !.df = [none |-> FALSE,
                                              rows |-> [i \in 1..Len(df) |->
                                                          Transformed(df[i],
                                                                      encounter_datetime(i))]]]
                /\ pc' = "load"
                /\ hist' = hist
    /\ UNCHANGED <<other, csv, qa, db, tx, seq, first_resolved, pre>>

total_batches(df) == (Len(df) \div BATCH_SIZE) + 1

\* df.iloc[start_idx:end_idx]
batch_df(df, batch_num) ==
    LET start_idx == batch_num * BATCH_SIZE
        end_idx == IF start_idx + BATCH_SIZE < Len(df) THEN start_idx + BATCH_SIZE ELSE Len(df)
    IN  SubSeq(df, start_idx + 1, end_idx)

CurrentBatch == batch_df(etl.df.rows, etl.batch_num)

Put(f, k, v) == [x \in DOMAIN f \cup {k} |-> IF x = k THEN v ELSE f[x]]

\* batch_df[["Patient ID", "Patient Age", "Patient Gender"]].drop_duplicates()
RECURSIVE drop_duplicates(_, _)
drop_duplicates(rows, seen) ==
    IF rows = <<>> THEN <<>>
    ELSE LET t == [Patient_ID |-> Head(rows).Patient_ID, Patient_Age |-> Head(rows).Patient_Age,
                   Patient_Gender |-> Head(rows).Patient_Gender]
         IN  IF t \in seen THEN drop_duplicates(Tail(rows), seen)
             ELSE <<t>> \o drop_duplicates(Tail(rows), seen \cup {t})

unique_patients(rows) == drop_duplicates(rows, {})

\* f"nih_patient_{pid}@external.com"
email(pid) == <<"nih_patient_", pid, "@external.com">>

\* SELECT MAX(patient_id) FROM patients WHERE patient_id LIKE 'PAT%', then
\* int(result[0].replace("PAT", "")) if result[0] else 5000
last_id(store) ==
    LET ids == {p.patient_id : p \in {q \in store.patients : StartsWith(q.patient_id, PAT)}}
    IN  IF ids = {} THEN 5000
        ELSE DigitsToInt(replace(CHOOSE x \in ids : \A y \in ids : y = x \/ StrLess(y, x), PAT))

\* variant: last_id is not advanced, every new patient gets maximum + 1
RECURSIVE create_patients_SameId(_, _, _, _, _)
create_patients_SameId(ups, existing_patients, last, new_patients, patient_map) ==
    IF ups = <<>> THEN [new_patients |-> new_patients, patient_map |-> patient_map]
    ELSE LET nih_id == Head(ups).Patient_ID
             g == Head(ups).Patient_Gender
         IN  IF email(nih_id) \in DOMAIN existing_patients
             THEN create_patients_SameId(Tail(ups), existing_patients, last, new_patients,
                                         Put(patient_map, nih_id,
                                             existing_patients[email(nih_id)]))
             ELSE LET new_patient_id == PAT \o zfill(NatToStr(last + 1), 7)
                      dob == Today - (Head(ups).Patient_Age * 365)
                      gender == IF g = "M" THEN "M" ELSE IF g = "F" THEN "F" ELSE "Other"
                  IN  create_patients_SameId(Tail(ups), existing_patients, last,
                                             Append(new_patients,
                                                    [patient_id |-> new_patient_id,
                                                     date_of_birth |-> dob,
                                                     gender |-> gender,
                                                     contact_email |-> email(nih_id)]),
                                             Put(patient_map, nih_id, new_patient_id))

\* the loop of _bulk_create_patients over unique_patients
RECURSIVE create_patients(_, _, _, _, _)
create_patients(ups, existing_patients, last, new_patients, patient_map) ==
    IF ups = <<>> THEN [new_patients |-> new_patients, patient_map |-> patient_map]
    ELSE LET nih_id == Head(ups).Patient_ID
             g == Head(ups).Patient_Gender
         IN  IF email(nih_id) \in DOMAIN existing_patients
             THEN create_patients(Tail(ups), existing_patients, last, new_patients,
                                  Put(patient_map, nih_id, existing_patients[email(nih_id)]))
             ELSE LET new_patient_id == PAT \o zfill(NatToStr(last + 1), 7)
                      dob == Today - (Head(ups).Patient_Age * 365)
                      gender == IF g = "M" THEN "M" ELSE IF g = "F" THEN "F" ELSE "Other"
                  IN  create_patients(Tail(ups), existing_patients, last + 1,
                                      Append(new_patients,
                                             [patient_id |-> new_patient_id,
                                              date_of_birth |-> dob, gender |-> gender,
                                              contact_email |-> email(nih_id)]),
                                      Put(patient_map, nih_id, new_patient_id))

Range(s) == {s[i] : i \in DOMAIN s}

\* step 1/5 of _load_batch_optimized: patient_map = _bulk_create_patients(...)
\* An unordered SELECT fills the dict existing_patients: when several rows
\* carry one contact_email, whichever is fetched last stays in the dict.
_bulk_create_patients ==
    /\ pc = "load"
    /\ etl.batch_num < total_batches(etl.df.rows)
    /\ LET ups == unique_patients(CurrentBatch)
           emails == {email(u.Patient_ID) : u \in Range(ups)}
           found == {p \in tx.patients : p.contact_email \in emails}
       IN  \E existing_patients \in [{p.contact_email : p \in found} ->
                                        {p.patient_id : p \in found}] :
             /\ \A e \in DOMAIN existing_patients :
                   \E p \in found : p.contact_email = e /\ p.patient_id = existing_patients[e]
             /\ LET r == create_patients(ups, existing_patients, last_id(tx), <<>>, <<>>)
                IN  \* INSERT INTO patients: patient_id is the primary key
                    /\ \A n \in Range(r.new_patients) :
                          n.patient_id \notin {p.patient_id : p \in tx.patients}
                    /\ tx' = [tx EXCEPT !.patients = @ \cup Range(r.new_patients)]
                    /\ etl' = [etl EXCEPT !.patient_map = r.patient_map,
                                          !.new_patients = r.new_patients,
                                          !.stats.patients_created = @ + Len(r.new_patients)]
                    /\ first_resolved' =
                          [x \in DOMAIN first_resolved \cup DOMAIN r.patient_map |->
                              IF x \in DOMAIN first_resolved THEN first_resolved[x]
                              ELSE r.patient_map[x]]
    /\ pc' = "encounters"
    /\ UNCHANGED <<other, csv, qa, db, seq, pre, hist>>

\* f"NIH_{row['Image Index'].replace('.png', '')}_ENC"
encounter_id(row) == NIH_ \o replace(row.Image_Index, PNG) \o _ENC

\* INSERT INTO encounters ... ON CONFLICT (encounter_id) DO NOTHING, row by row
RECURSIVE insert_encounters(_, _)
insert_encounters(table, rows) ==
    IF rows = <<>> THEN table
    ELSE insert_encounters(
             IF \E e \in table : e.encounter_id = Head(rows).encounter_id THEN table
             ELSE table \cup {Head(rows)},
             Tail(rows))

\* step 2/5: random.choices(self.facility_ids, k=len(batch_df)) raises IndexError
\* on an empty roster unless k = 0
CreateEncounters ==
    /\ pc = "encounters"
    /\ IF CurrentBatch # <<>> /\ etl.facility_ids = {}
       THEN \* IndexError: get_connection rolls back and re-raises
            /\ Rollback
            /\ etl' = [etl EXCEPT !.error = "IndexError"]
            /\ pc' = "idle"
            /\ Finished("load", etl.incremental, "raised")
       ELSE /\ \E facility_ids_sample \in [1..Len(CurrentBatch) -> etl.facility_ids] :
                  LET encounters ==
                          [i \in 1..Len(CurrentBatch) |->
                              [encounter_id |-> encounter_id(CurrentBatch[i]),
                               patient_id |-> etl.patient_map[CurrentBatch[i].Patient_ID],
                               facility_id |-> facility_ids_sample[i],
                               encounter_date |-> CurrentBatch[i].encounter_date]]
                  IN  /\ tx' = [tx EXCEPT !.encounters = insert_encounters(@, encounters)]
                      /\ etl' = [etl EXCEPT !.stats.encounters_created = @ + Len(encounters)]
            /\ pc' = "procedures"
            /\ UNCHANGED <<db, hist>>
    /\ UNCHANGED <<other, csv, qa, seq, first_resolved, pre>>

\* INSERT INTO procedures ... ON CONFLICT (encounter_id, procedure_code) DO NOTHING;
\* every attempted row takes the next procedure_id of the sequence
RECURSIVE insert_procedures(_, _, _)
insert_procedures(table, rows, last) ==
    IF rows = <<>> THEN table
    ELSE insert_procedures(
             IF \E p \in table : /\ p.encounter_id = Head(rows).encounter_id
                                 /\ p.procedure_code = Head(rows).procedure_code
             THEN table
             ELSE table \cup {[procedure_id |-> last + 1,
                               encounter_id |-> Head(rows).encounter_id,
                               procedure_code |-> Head(rows).procedure_code]},
             Tail(rows), last + 1)

\* step 3/5
CreateProcedures ==
    /\ pc = "procedures"
    /\ LET procedures == [i \in 1..Len(CurrentBatch) |->
                             [encounter_id |-> encounter_id(CurrentBatch[i]),
                              procedure_code |-> CurrentBatch[i].nih_procedure_code]]
       IN  /\ tx' = [tx EXCEPT !.procedures =
                                   insert_procedures(@, procedures, seq.procedure_id)]
           /\ seq' = [seq EXCEPT !.procedure_id = @ + Len(procedures)]
           /\ etl' = [etl EXCEPT !.stats.procedures_created = @ + Len(procedures)]
    /\ pc' = "diagnoses"
    /\ UNCHANGED <<other, csv, qa, db, first_resolved, pre, hist>>

\* variant: the whole diagnosis_list is enumerated, without [:3]
RECURSIVE row_diagnoses_Uncapped(_, _)
row_diagnoses_Uncapped(row, rank) ==
    IF rank > Len(row.diagnosis_list) THEN <<>>
    ELSE LET nih_diagnosis == row.diagnosis_list[rank]
             hit == /\ nih_diagnosis \in DOMAIN NIH_TO_ICD10_MAPPING
                    /\ NIH_TO_ICD10_MAPPING[nih_diagnosis] \in DOMAIN etl.diagnosis_cache
         IN  (IF hit
              THEN <<[encounter_id |-> encounter_id(row),
                      diagnosis_id |-> etl.diagnosis_cache[NIH_TO_ICD10_MAPPING[nih_diagnosis]],
                      diagnosis_rank |-> rank, is_primary |-> (rank = 1)]>>
              ELSE <<>>) \o row_diagnoses_Uncapped(row, rank + 1)

\* the (encounter_id, diagnosis_id, rank, is_primary) tuples of one row:
\* enumerate(diagnosis_list[:3], start=1), kept when the label is mapped and
\* its code is in the diagnosis cache
RECURSIVE row_diagnoses(_, _)
row_diagnoses(row, rank) ==
    IF rank > 3 \/ rank > Len(row.diagnosis_list) THEN <<>>
    ELSE LET nih_diagnosis == row.diagnosis_list[rank]
             hit == /\ nih_diagnosis \in DOMAIN NIH_TO_ICD10_MAPPING
                    /\ NIH_TO_ICD10_MAPPING[nih_diagnosis] \in DOMAIN etl.diagnosis_cache
         IN  (IF hit
              THEN <<[encounter_id |-> encounter_id(row),
                      diagnosis_id |-> etl.diagnosis_cache[NIH_TO_ICD10_MAPPING[nih_diagnosis]],
                      diagnosis_rank |-> rank, is_primary |-> (rank = 1)]>>
              ELSE <<>>) \o row_diagnoses(row, rank + 1)

RECURSIVE batch_diagnoses(_)
batch_diagnoses(rows) ==
    IF rows = <<>> THEN <<>> ELSE row_diagnoses(Head(rows), 1) \o batch_diagnoses(Tail(rows))

\* INSERT INTO encounter_diagnoses ... ON CONFLICT (encounter_id, diagnosis_id) DO NOTHING
RECURSIVE insert_encounter_diagnoses(_, _)
insert_encounter_diagnoses(table, rows) ==
    IF rows = <<>> THEN table
    ELSE insert_encounter_diagnoses(
             IF \E d \in table : /\ d.encounter_id = Head(rows).encounter_id
                                 /\ d.diagnosis_id = Head(rows).diagnosis_id
             THEN table
             ELSE table \cup {Head(rows)},
             Tail(rows))

\* step 4/5
AssignDiagnoses ==
    /\ pc = "diagnoses"
    /\ LET encounter_diagnoses == batch_diagnoses(CurrentBatch)
       IN  /\ tx' = [tx EXCEPT !.encounter_diagnoses =
                                   insert_encounter_diagnoses(@, encounter_diagnoses)]
           /\ etl' = [etl EXCEPT !.stats.diagnoses_assigned = @ + Len(encounter_diagnoses)]
    /\ pc' = "reports"
    /\ UNCHANGED <<other, csv, qa, db, seq, first_resolved, pre, hist>>

\* variant: the insert skips an encounter that already has a report
CreateReports_OnConflict ==
    /\ pc = "reports"
    /\ LET reports == [i \in 1..Len(CurrentBatch) |->
                          [report_id |-> seq.report_id + i,
                           encounter_id |-> encounter_id(CurrentBatch[i])]]
       IN  /\ tx' = [tx EXCEPT !.reports =
                        @ \cup {r \in Range(reports) :
                                  \A x \in tx.reports : x.encounter_id # r.encounter_id}]
           /\ seq' = [seq EXCEPT !.report_id = @ + Len(reports)]
           /\ etl' = [etl EXCEPT !.stats.reports_created = @ + Len(reports)]
    /\ pc' = "commit"
    /\ UNCHANGED <<other, csv, qa, db, first_resolved, pre, hist>>

\* step 5/5: INSERT INTO reports, no conflict clause
CreateReports ==
    /\ pc = "reports"
    /\ LET reports == [i \in 1..Len(CurrentBatch) |->
                          [report_id |-> seq.report_id + i,
                           encounter_id |-> encounter_id(CurrentBatch[i])]]
       IN  /\ tx' = [tx EXCEPT !.reports = @ \cup Range(reports)]
           /\ seq' = [seq EXCEPT !.report_id = @ + Len(reports)]
           /\ etl' = [etl EXCEPT !.stats.reports_created = @ + Len(reports)]
    /\ pc' = "commit"
    /\ UNCHANGED <<other, csv, qa, db, first_resolved, pre, hist>>

\* load(): conn.commit() after the batch, then the next batch_num
CommitBatch ==
    /\ pc = "commit"
    /\ Commit
    /\ etl' = [etl EXCEPT !.batch_num = @ + 1]
    /\ pc' = "load"
    /\ UNCHANGED <<other, csv, qa, tx, seq, first_resolved, pre, hist>>

\* load(): the loop is over; the connection is closed and run() logs the stats
LoadDone ==
    /\ pc = "load"
    /\ etl.batch_num = total_batches(etl.df.rows)
    /\ pc' = "idle"
    /\ Finished("load", etl.incremental, "ok")
    /\ UNCHANGED <<other, csv, qa, db, tx, seq, etl, first_resolved, pre>>

LoadSteps == {"load", "encounters", "procedures", "diagnoses", "reports", "commit"}

\* a statement of the current batch raises (connection lost, constraint
\* violated): get_connection rolls back,
\* closes and re-raises; run() and its caller do not catch it
LoadRaise ==
    /\ pc \in LoadSteps
    /\ pc = "load" => etl.batch_num < total_batches(etl.df.rows)
    /\ Raises < MaxRaises
    /\ Rollback
    /\ pc' = "idle"
    /\ Finished("load", etl.incremental, "raised")
    /\ UNCHANGED <<other, csv, qa, seq, etl, first_resolved, pre>>

(***************************************************************************)
(* WarehouseETL (part3_analytics/populate_warehouse.py)                    *)
(* Each populate_* statement and the conn.commit() that follows it in      *)
(* run() form one step.  Which source row receives which SERIAL key        *)
(* depends on the order of an unordered SELECT; keys being interchangeable,*)
(* the model numbers the inserted rows in the order of their natural key.  *)
(***************************************************************************)
TransformSteps == {"clear_warehouse", "dim_time", "dim_patient", "dim_procedure",
                   "dim_diagnosis", "fact_encounters", "bridge_encounter_procedures",
                   "bridge_encounter_diagnoses"}

\* the value of the conflict target (key columns) in a row
KeyOf(row, key) == [i \in DOMAIN key |-> row[key[i]]]

\* variant: a plain INSERT, every source row is written
OnConflictDoNothing_InsertAll(source, key, taken) == {source}

\* the outcomes of INSERT ... SELECT ... ON CONFLICT (key) DO NOTHING into a
\* table holding the keys taken: of the source rows with one new key,
\* exactly one is inserted, whichever the SELECT yields first
OnConflictDoNothing(source, key, taken) ==
    LET free == {s \in source : KeyOf(s, key) \notin taken}
        contested == {s \in free : \E t \in free : t # s /\ KeyOf(t, key) = KeyOf(s, key)}
    IN  {(free \ contested) \cup W : W \in
            {V \in SUBSET contested :
                \A s \in contested :
                    Cardinality({v \in V : KeyOf(v, key) = KeyOf(s, key)}) = 1}}

\* position of key k among the keys ks (1 for the smallest)
RankIn(ks, k) == Cardinality({j \in ks : j < k}) + 1

\* variant: the stage's commit is missing
Populated_Uncommitted(table, rows) ==
    /\ tx' = [tx EXCEPT ![table] = rows]
    /\ db' = db

\* a stage wrote `rows` to `table` and run() committed
Populated(table, rows) ==
    /\ tx' = [tx EXCEPT ![table] = rows]
    /\ db' = tx'

\* WarehouseETL().run(): get_connection(); the objects of an earlier
\* run-load or run-qa are gone by now
StartTransform ==
    /\ pc = "idle"
    /\ Len(hist) < MaxRuns
    /\ etl' = NoPipeline
    /\ qa' = NoQA
    /\ pre' = db
    /\ pc' = "clear_warehouse"
    /\ UNCHANGED <<other, csv, db, tx, seq, first_resolved, hist>>

\* variant: only the bridge tables are truncated
clear_warehouse_tables_BridgesOnly ==
    <<"bridge_encounter_diagnoses", "bridge_encounter_procedures">>

\* the list `tables` of clear_warehouse, in the order of its TRUNCATEs
clear_warehouse_tables ==
    <<"bridge_encounter_diagnoses", "bridge_encounter_procedures", "fact_encounters",
      "dim_diagnosis", "dim_procedure", "dim_patient", "dim_time">>

\* variant: the bridge tables are left out of the list
Truncated_NoBridges(store) ==
    [t \in DOMAIN store |->
        IF t \in WarehouseTables \ {"bridge_encounter_procedures", "bridge_encounter_diagnoses"}
        THEN {} ELSE store[t]]

\* variant: the list names every table of the database
Truncated_EveryTable(store) == [t \in DOMAIN store |-> {}]

\* for table in tables: TRUNCATE TABLE {table} CASCADE
Truncated(store) ==
    [t \in DOMAIN store |-> IF t \in Range(clear_warehouse_tables) THEN {} ELSE store[t]]

\* self.clear_warehouse(cursor); conn.commit()
clear_warehouse ==
    /\ pc = "clear_warehouse"
    /\ tx' = Truncated(tx)
    /\ db' = tx'
    /\ pc' = "dim_time"
    /\ UNCHANGED <<other, csv, qa, seq, etl, first_resolved, pre, hist>>

\* variant: the loop stops before max_date
RECURSIVE time_records_Exclusive(_, _)
time_records_Exclusive(current_date, max_date) ==
    IF current_date < max_date
    THEN {[date_id |-> strftime_Ymd(current_date), full_date |-> current_date]}
         \cup time_records_Exclusive(current_date + 1, max_date)
    ELSE {}

\* while current_date <= max_date: append; current_date += timedelta(days=1)
RECURSIVE time_records(_, _)
time_records(current_date, max_date) ==
    IF current_date <= max_date
    THEN {[date_id |-> strftime_Ymd(current_date), full_date |-> current_date]}
         \cup time_records(current_date + 1, max_date)
    ELSE {}

populate_dim_time ==
    /\ pc = "dim_time"
    /\ LET dates == {e.encounter_date : e \in tx.encounters}
       IN  IF dates = {}
           THEN Populated("dim_time", tx.dim_time)
           ELSE LET min_date == CHOOSE d \in dates : \A x \in dates : d <= x
                    max_date == CHOOSE d \in dates : \A x \in dates : x <= d
                    taken == {<<t.date_id>> : t \in tx.dim_time}
                IN  \E W \in OnConflictDoNothing(time_records(min_date, max_date),
                                                 <<"date_id">>, taken) :
                       Populated("dim_time", tx.dim_time \cup W)
    /\ pc' = "dim_patient"
    /\ UNCHANGED <<other, csv, qa, seq, etl, first_resolved, pre, hist>>

\* EXTRACT(YEAR FROM AGE(later, earlier)): AGE subtracts field by field and
\* borrows, so the years are the completed ones; a negative interval is the
\* negated interval of the exchanged arguments
EXTRACT_YEAR_FROM_AGE(later, earlier) ==
    LET Years(a, b) ==
            LET ca == CalendarDate(a)
                cb == CalendarDate(b)
            IN  (ca.year - cb.year)
                - (IF ca.month < cb.month \/ (ca.month = cb.month /\ ca.day < cb.day)
                   THEN 1 ELSE 0)
    IN  IF later >= earlier THEN Years(later, earlier) ELSE 0 - Years(earlier, later)

\* EXTRACT(YEAR FROM AGE(MIN(e.encounter_date), p.date_of_birth)) over the
\* LEFT JOIN: <<>> is NULL (MIN over no encounter), <<n>> the value n
first_encounter_age(p, encounters) ==
    LET dates == {e.encounter_date : e \in {x \in encounters : x.patient_id = p.patient_id}}
    IN  IF dates = {} THEN <<>>
        ELSE <<EXTRACT_YEAR_FROM_AGE(CHOOSE d \in dates : \A x \in dates : d <= x,
                                     p.date_of_birth)>>

\* the CASE of populate_dim_patient: every WHEN is NULL, not true, for a NULL
\* age, which leaves the ELSE branch
age_group(age) ==
    IF age = <<>> THEN "Elderly"
    ELSE IF age[1] < 18 THEN "Pediatric"
    ELSE IF age[1] >= 18 /\ age[1] <= 35 THEN "Young Adult"
    ELSE IF age[1] >= 36 /\ age[1] <= 55 THEN "Middle Age"
    ELSE IF age[1] >= 56 /\ age[1] <= 75 THEN "Senior"
    ELSE "Elderly"

populate_dim_patient ==
    /\ pc = "dim_patient"
    /\ LET source == {[patient_id |-> KeyToInt(p.patient_id), sex |-> p.gender,
                       age |-> first_encounter_age(p, tx.encounters),
                       age_group |-> age_group(first_encounter_age(p, tx.encounters))] :
                        p \in tx.patients}
           taken == {<<d.patient_id>> : d \in tx.dim_patient}
       IN  /\ \E W \in OnConflictDoNothing(source, <<"patient_id">>, taken) :
                 Populated("dim_patient", tx.dim_patient \cup
                     {[patient_key |-> seq.patient_key
                                         + RankIn({v.patient_id : v \in W}, w.patient_id),
                       patient_id |-> w.patient_id, sex |-> w.sex, age |-> w.age,
                       age_group |-> w.age_group] : w \in W})
           /\ seq' = [seq EXCEPT !.patient_key = @ + Cardinality(source)]
    /\ pc' = "dim_procedure"
    /\ UNCHANGED <<other, csv, qa, etl, first_resolved, pre, hist>>

populate_dim_procedure ==
    /\ pc = "dim_procedure"
    /\ LET source == {[procedure_id |-> p.procedure_id, procedure_code |-> p.procedure_code] :
                        p \in tx.procedures}
           taken == {<<d.procedure_id>> : d \in tx.dim_procedure}
       IN  /\ \E W \in OnConflictDoNothing(source, <<"procedure_id">>, taken) :
                 Populated("dim_procedure", tx.dim_procedure \cup
                     {[procedure_key |-> seq.procedure_key
                                           + RankIn({v.procedure_id : v \in W}, w.procedure_id),
                       procedure_id |-> w.procedure_id,
                       procedure_code |-> w.procedure_code] : w \in W})
           /\ seq' = [seq EXCEPT !.procedure_key = @ + Cardinality(source)]
    /\ pc' = "dim_diagnosis"
    /\ UNCHANGED <<other, csv, qa, etl, first_resolved, pre, hist>>

populate_dim_diagnosis ==
    /\ pc = "dim_diagnosis"
    /\ LET source == {[diagnosis_id |-> KeyToInt(d.diagnosis_id),
                       diagnosis_code |-> d.diagnosis_code] : d \in tx.diagnoses}
           taken == {<<d.diagnosis_id>> : d \in tx.dim_diagnosis}
       IN  /\ \E W \in OnConflictDoNothing(source, <<"diagnosis_id">>, taken) :
                 Populated("dim_diagnosis", tx.dim_diagnosis \cup
                     {[diagnosis_key |-> seq.diagnosis_key
                                           + RankIn({v.diagnosis_id : v \in W}, w.diagnosis_id),
                       diagnosis_id |-> w.diagnosis_id,
                       diagnosis_code |-> w.diagnosis_code] : w \in W})
           /\ seq' = [seq EXCEPT !.diagnosis_key = @ + Cardinality(source)]
    /\ pc' = "fact_encounters"
    /\ UNCHANGED <<other, csv, qa, etl, first_resolved, pre, hist>>

\* variant: COUNT(col) without DISTINCT over the rows of the three LEFT JOINs
fact_source_FanOut ==
    UNION {
      {LET P == Cardinality({q \in tx.procedures : q.encounter_id = e.encounter_id})
           D == Cardinality({q \in tx.encounter_diagnoses : q.encounter_id = e.encounter_id})
           R == Cardinality({q \in tx.reports : q.encounter_id = e.encounter_id})
           Side(n) == IF n = 0 THEN 1 ELSE n
       IN  [encounter_id |-> KeyToInt(e.encounter_id),
            patient_key |-> dp.patient_key,
            date_id |-> TO_CHAR_YYYYMMDD(e.encounter_date),
            facility_id |-> KeyToInt(e.facility_id),
            procedure_count |-> P * Side(D) * Side(R),
            diagnosis_count |-> D * Side(P) * Side(R),
            report_count |-> R * Side(P) * Side(D)] :
          dp \in {d \in tx.dim_patient : d.patient_id = KeyToInt(e.patient_id)}} :
      e \in tx.encounters }

\* the SELECT of populate_fact_encounters: one row per (encounter, matching
\* dim_patient row), with the three COUNT(DISTINCT ...) aggregates
fact_source ==
    UNION {
      {[encounter_id |-> KeyToInt(e.encounter_id),
        patient_key |-> dp.patient_key,
        date_id |-> TO_CHAR_YYYYMMDD(e.encounter_date),
        facility_id |-> KeyToInt(e.facility_id),
        procedure_count |->
            Cardinality({p.procedure_id : p \in {q \in tx.procedures :
                                                    q.encounter_id = e.encounter_id}}),
        diagnosis_count |->
            Cardinality({d.diagnosis_id : d \in {q \in tx.encounter_diagnoses :
                                                    q.encounter_id = e.encounter_id}}),
        report_count |->
            Cardinality({r.report_id : r \in {q \in tx.reports :
                                                 q.encounter_id = e.encounter_id}})] :
          dp \in {d \in tx.dim_patient : d.patient_id = KeyToInt(e.patient_id)}} :
      e \in tx.encounters }

populate_fact_encounters ==
    /\ pc = "fact_encounters"
    /\ LET taken == {<<f.encounter_id>> : f \in tx.fact_encounters}
       IN  /\ \E W \in OnConflictDoNothing(fact_source, <<"encounter_id">>, taken) :
                 Populated("fact_encounters", tx.fact_encounters \cup
                     {[encounter_key |-> seq.encounter_key
                                           + RankIn({v.encounter_id : v \in W}, w.encounter_id),
                       encounter_id |-> w.encounter_id, patient_key |-> w.patient_key,
                       date_id |-> w.date_id, facility_id |-> w.facility_id,
                       procedure_count |-> w.procedure_count,
                       diagnosis_count |-> w.diagnosis_count,
                       report_count |-> w.report_count] : w \in W})
           /\ seq' = [seq EXCEPT !.encounter_key = @ + Cardinality(fact_source)]
    /\ pc' = "bridge_encounter_procedures"
    /\ UNCHANGED <<other, csv, qa, etl, first_resolved, pre, hist>>

populate_bridge_procedures ==
    /\ pc = "bridge_encounter_procedures"
    /\ LET source ==
               UNION { UNION {
                 {[encounter_key |-> f.encounter_key, procedure_key |-> dp.procedure_key] :
                    dp \in {d \in tx.dim_procedure : d.procedure_id = p.procedure_id}} :
                 p \in {q \in tx.procedures :
                          \E e \in tx.encounters :
                             /\ KeyToInt(e.encounter_id) = f.encounter_id
                             /\ e.encounter_id = q.encounter_id} } :
                 f \in tx.fact_encounters }
           taken == {<<b.encounter_key, b.procedure_key>> :
                        b \in tx.bridge_encounter_procedures}
       IN  \E W \in OnConflictDoNothing(source,
                                        <<"encounter_key", "procedure_key">>, taken) :
              Populated("bridge_encounter_procedures", tx.bridge_encounter_procedures \cup W)
    /\ pc' = "bridge_encounter_diagnoses"
    /\ UNCHANGED <<other, csv, qa, seq, etl, first_resolved, pre, hist>>

\* variant: the branches of the CASE exchanged
diagnosis_type_Swapped(is_primary) == IF is_primary THEN "Secondary" ELSE "Primary"

\* CASE WHEN ed.is_primary THEN 'Primary' ELSE 'Secondary' END
diagnosis_type(is_primary) == IF is_primary THEN "Primary" ELSE "Secondary"

\* the last stage; after its commit run() logs the summary and closes
populate_bridge_diagnoses ==
    /\ pc = "bridge_encounter_diagnoses"
    /\ LET source ==
               UNION { UNION {
                 {[encounter_key |-> f.encounter_key, diagnosis_key |-> dd.diagnosis_key,
                   diagnosis_type |-> diagnosis_type(ed.is_primary)] :
                    dd \in {d \in tx.dim_diagnosis :
                              d.diagnosis_id = KeyToInt(ed.diagnosis_id)}} :
                 ed \in {q \in tx.encounter_diagnoses :
                           \E e \in tx.encounters :
                              /\ KeyToInt(e.encounter_id) = f.encounter_id
                              /\ e.encounter_id = q.encounter_id} } :
                 f \in tx.fact_encounters }
           taken == {<<b.encounter_key, b.diagnosis_key>> :
                        b \in tx.bridge_encounter_diagnoses}
       IN  \E W \in OnConflictDoNothing(source,
                                        <<"encounter_key", "diagnosis_key">>, taken) :
              Populated("bridge_encounter_diagnoses", tx.bridge_encounter_diagnoses \cup W)
    /\ pc' = "idle"
    /\ Finished("transform", FALSE, "ok")
    /\ UNCHANGED <<other, csv, qa, seq, etl, first_resolved, pre>>

\* a statement of the current stage raises: run() rolls back, closes, re-raises
TransformRaise ==
    /\ pc \in TransformSteps
    /\ Raises < MaxRaises
    /\ Rollback
    /\ pc' = "idle"
    /\ Finished("transform", FALSE, "raised")
    /\ UNCHANGED <<other, csv, qa, seq, etl, first_resolved, pre>>

RunTransform ==
    \/ StartTransform
    \/ clear_warehouse
    \/ populate_dim_time
    \/ populate_dim_patient
    \/ populate_dim_procedure
    \/ populate_dim_diagnosis
    \/ populate_fact_encounters
    \/ populate_bridge_procedures
    \/ populate_bridge_diagnoses
    \/ TransformRaise

(***************************************************************************)
(* WarehouseQA (part3_analytics/run_warehouse_qa.py)                       *)
(***************************************************************************)
\* SQL NULL in a VARCHAR and in an INTEGER column
NULL_VARCHAR == "NULL"

NULL_INTEGER == 0 - 1

QA_DESCRIPTIONS ==
    [idx \in {1, 2, 3, 5, 6, 7, 9} |->
        CASE idx = 1 -> "Check for duplicate patient IDs"
          [] idx = 2 -> "Check for missing patient demographics"
          [] idx = 3 -> "Check for orphan encounters"
          [] idx = 5 -> "Check for duplicate encounter IDs"
          [] idx = 6 -> "Check for missing encounter dates"
          [] idx = 7 -> "Check for orphan procedures in bridge"
          [] idx = 9 -> "Check for duplicate procedure codes"]

\* the keys of the dict _load_queries() returns, in insertion order
QueryIds == <<1, 2, 3, 5, 6, 7, 9>>

\* SELECT col, COUNT(*) FROM table GROUP BY col HAVING COUNT(*) > 1
HavingCountAbove1(table, col) ==
    {[column |-> col, value |-> r[col],
      count |-> Cardinality({x \in table : x[col] = r[col]})] :
        r \in {y \in table : Cardinality({x \in table : x[col] = y[col]}) > 1}}

\* the rows query idx of _load_queries() returns on a store
_load_queries(idx, store) ==
    CASE idx = 1 -> HavingCountAbove1(store.dim_patient, "patient_id")
      [] idx = 2 -> {[patient_id |-> d.patient_id, age_group |-> d.age_group, sex |-> d.sex] :
                        d \in {x \in store.dim_patient :
                                 x.age_group = NULL_VARCHAR \/ x.sex = NULL_VARCHAR}}
      [] idx = 3 -> {[encounter_id |-> f.encounter_id] :
                        f \in {x \in store.fact_encounters :
                                 \A dp \in store.dim_patient :
                                    dp.patient_key # x.patient_key}}
      [] idx = 5 -> HavingCountAbove1(store.fact_encounters, "encounter_id")
      [] idx = 6 -> {[encounter_id |-> f.encounter_id] :
                        f \in {x \in store.fact_encounters : x.date_id = NULL_INTEGER}}
      [] idx = 7 -> {[encounter_key |-> bp.encounter_key, procedure_key |-> bp.procedure_key] :
                        bp \in {x \in store.bridge_encounter_procedures :
                                  \A dp \in store.dim_procedure :
                                     dp.procedure_key # x.procedure_key}}
      [] idx = 9 -> HavingCountAbove1(store.dim_procedure, "procedure_code")

\* variant: the test reads len(rows) >= 0
status_AlwaysPass(rows) == IF Cardinality(rows) >= 0 THEN "PASS" ELSE "FAIL"

\* if len(rows) == 0: status = "PASS" else: status = "FAIL"
status(rows) == IF Cardinality(rows) = 0 THEN "PASS" ELSE "FAIL"

\* the ERROR entries of self.results
Errors == Len(SelectSeq(qa.results, LAMBDA r : r.status = "ERROR"))

\* main(): qa = WarehouseQA(); run_all() up to conn.cursor()
StartQA ==
    /\ pc = "idle"
    /\ Len(hist) < MaxRuns
    /\ qa' = NoQA
    /\ etl' = NoPipeline
    /\ pre' = db
    /\ pc' = "qa"
    /\ UNCHANGED <<other, csv, db, tx, seq, first_resolved, hist>>

\* one pass of the loop of run_all through the try branch
ExecuteQuery ==
    /\ pc = "qa"
    /\ Len(qa.results) < Len(QueryIds)
    /\ LET idx == QueryIds[Len(qa.results) + 1]
           rows == _load_queries(idx, tx)
       IN  qa' = [qa EXCEPT
                    !.results = Append(@,
                        [id |-> idx, description |-> QA_DESCRIPTIONS[idx],
                         status |-> status(rows),
                         output |-> IF status(rows) = "PASS"
                                    THEN [text |-> "_No rows returned - OK_", rows |-> {}]
                                    ELSE [text |-> "", rows |-> rows]]),
                    !.exception = "none"]
    /\ UNCHANGED <<other, csv, db, tx, seq, pc, etl, first_resolved, pre, hist>>

\* variant: the except branch rolls back and re-raises
QueryError_Reraises ==
    /\ pc = "qa"
    /\ Len(qa.results) < Len(QueryIds)
    /\ Raises + Errors < MaxRaises
    /\ Rollback
    /\ pc' = "idle"
    /\ Finished("qa", FALSE, "raised")
    /\ UNCHANGED <<other, csv, seq, etl, qa, first_resolved, pre>>

\* one pass of the loop whose cursor.execute(sql) raises: the except branch
QueryError ==
    /\ pc = "qa"
    /\ Len(qa.results) < Len(QueryIds)
    /\ Raises + Errors < MaxRaises
    /\ Rollback
    /\ LET idx == QueryIds[Len(qa.results) + 1]
       IN  qa' = [qa EXCEPT
                    !.results = Append(@,
                        [id |-> idx, description |-> QA_DESCRIPTIONS[idx],
                         status |-> "ERROR",
                         output |-> [text |-> "str(e)", rows |-> {}]]),
                    !.exception = "Exception"]
    /\ UNCHANGED <<other, csv, seq, pc, etl, first_resolved, pre, hist>>

\* the loop is over: the connection is closed, write_summary() writes one
\* section per entry of self.results
write_summary ==
    /\ pc = "qa"
    /\ Len(qa.results) = Len(QueryIds)
    /\ qa' = [qa EXCEPT !.written = [i \in 1..Len(qa.results) |->
                                        [id |-> qa.results[i].id,
                                         description |-> qa.results[i].description,
                                         status |-> qa.results[i].status,
                                         output |-> qa.results[i].output]]]
    /\ tx' = db
    /\ pc' = "idle"
    /\ Finished("qa", FALSE, "ok")
    /\ UNCHANGED <<other, csv, db, seq, etl, first_resolved, pre>>

\* psycopg2.connect() raises: get_connection re-raises, nothing was run
QARaise ==
    /\ pc = "qa"
    /\ qa.results = <<>>
    /\ Raises < MaxRaises
    /\ Rollback
    /\ pc' = "idle"
    /\ Finished("qa", FALSE, "raised")
    /\ UNCHANGED <<other, csv, seq, etl, qa, first_resolved, pre>>

RunQA ==
    \/ StartQA
    \/ ExecuteQuery
    \/ QueryError
    \/ write_summary
    \/ QARaise

RunLoad ==
    \/ \E incremental \in BOOLEAN : StartLoad(incremental)
    \/ transform
    \/ _bulk_create_patients
    \/ CreateEncounters
    \/ CreateProcedures
    \/ AssignDiagnoses
    \/ CreateReports
    \/ CommitBatch
    \/ LoadDone
    \/ LoadRaise

Next == RunLoad \/ RunTransform \/ RunQA

Spec == Init /\ [][Next]_vars

(***************************************************************************)
(* Two run-load processes on one store                                     *)
(* Each process runs main() of etl_pipeline.py on its own connection.      *)
(* pc, etl and tx belong to the process taking the next step; `other`      *)
(* holds the second one.  Statements run under READ COMMITTED: a statement *)
(* sees the committed rows and the rows of its own transaction.  An INSERT *)
(* whose unique key was inserted by the other open transaction waits until *)
(* that transaction ends.  Both processes take their rows from the same    *)
(* file in the same order, so such waits never form a cycle and a step     *)
(* that has to wait is simply not taken before the other commits or rolls  *)
(* back.                                                                   *)
(***************************************************************************)
\* the rows a connection has written and not committed
Delta(view, committed) == [t \in LoadedTableNames |-> view[t] \ committed[t]]

\* what a connection sees: the committed rows and its own
Visible(committed, delta) ==
    [t \in DOMAIN committed |->
        IF t \in LoadedTableNames THEN committed[t] \cup delta[t] ELSE committed[t]]

\* the other process takes the next steps
Switch ==
    /\ other' = [etl |-> etl, pc |-> pc, delta |-> Delta(tx, db)]
    /\ etl' = other.etl
    /\ pc' = other.pc
    /\ tx' = Visible(db, other.delta)
    /\ UNCHANGED <<csv, qa, db, seq, first_resolved, pre, hist>>

\* python etl_pipeline.py: main() builds NIH_ETL_Pipeline and calls run()
Launch ==
    /\ Len(hist) + (IF other.pc = "idle" THEN 0 ELSE 1) < MaxRuns
    /\ \E incremental \in BOOLEAN : StartLoad(incremental)

\* variant: an INSERT never waits for the other transaction
Held_Nothing(table, key) == {}

\* the unique keys the other open transaction has inserted into a table
Held(table, key) == {KeyOf(r, key) : r \in other.delta[table]}

\* the patient_id values the next _bulk_create_patients would insert
CandidateIds ==
    LET ups == unique_patients(CurrentBatch)
        emails == {email(u.Patient_ID) : u \in Range(ups)}
        found == {p.contact_email : p \in {q \in tx.patients : q.contact_email \in emails}}
        r == create_patients(ups, [e \in found |-> <<>>], last_id(tx), <<>>, <<>>)
    IN  {<<n.patient_id>> : n \in Range(r.new_patients)}

\* step 1/5 when no new patient_id is held by the other transaction
ConcurrentPatients ==
    /\ pc = "load"
    /\ etl.batch_num < total_batches(etl.df.rows)
    /\ CandidateIds \cap Held("patients", <<"patient_id">>) = {}
    /\ _bulk_create_patients

\* step 1/5 up to the INSERT INTO patients, which waits: the other
\* transaction has inserted one of the new patient_id values
WaitForPatientId ==
    /\ pc = "load"
    /\ etl.batch_num < total_batches(etl.df.rows)
    /\ CandidateIds \cap Held("patients", <<"patient_id">>) # {}
    /\ LET ups == unique_patients(CurrentBatch)
           emails == {email(u.Patient_ID) : u \in Range(ups)}
           found == {p \in tx.patients : p.contact_email \in emails}
       IN  \E existing_patients \in [{p.contact_email : p \in found} ->
                                        {p.patient_id : p \in found}] :
             /\ \A e \in DOMAIN existing_patients :
                   \E p \in found : p.contact_email = e /\ p.patient_id = existing_patients[e]
             /\ LET r == create_patients(ups, existing_patients, last_id(tx), <<>>, <<>>)
                IN  etl' = [etl EXCEPT !.patient_map = r.patient_map,
                                       !.new_patients = r.new_patients,
                                       !.stats.patients_created = @ + Len(r.new_patients)]
    /\ pc' = "patients_wait"
    /\ UNCHANGED <<other, csv, qa, db, tx, seq, first_resolved, pre, hist>>

\* the waiting INSERT INTO patients goes on once the other transaction has
\* ended: a unique violation on patient_id if it committed, the insert if it
\* rolled back
InsertAfterWait ==
    /\ pc = "patients_wait"
    /\ {<<n.patient_id>> : n \in Range(etl.new_patients)}
          \cap Held("patients", <<"patient_id">>) = {}
    /\ IF \E n \in Range(etl.new_patients) :
             n.patient_id \in {p.patient_id : p \in tx.patients}
       THEN /\ Rollback
            /\ etl' = [etl EXCEPT !.error = "UniqueViolation"]
            /\ pc' = "idle"
            /\ Finished("load", etl.incremental, "raised")
            /\ first_resolved' = first_resolved
       ELSE /\ tx' = [tx EXCEPT !.patients = @ \cup Range(etl.new_patients)]
            /\ first_resolved' =
                  [x \in DOMAIN first_resolved \cup DOMAIN etl.patient_map |->
                      IF x \in DOMAIN first_resolved THEN first_resolved[x]
                      ELSE etl.patient_map[x]]
            /\ pc' = "encounters"
            /\ UNCHANGED <<db, etl, hist>>
    /\ UNCHANGED <<other, csv, qa, seq, pre>>

\* step 2/5 when no encounter_id of the batch is held by the other transaction
ConcurrentEncounters ==
    /\ pc = "encounters"
    /\ {<<encounter_id(CurrentBatch[i])>> : i \in DOMAIN CurrentBatch}
          \cap Held("encounters", <<"encounter_id">>) = {}
    /\ CreateEncounters

\* step 3/5 when no (encounter_id, procedure_code) of the batch is held
ConcurrentProcedures ==
    /\ pc = "procedures"
    /\ {<<encounter_id(CurrentBatch[i]), CurrentBatch[i].nih_procedure_code>> :
           i \in DOMAIN CurrentBatch}
          \cap Held("procedures", <<"encounter_id", "procedure_code">>) = {}
    /\ CreateProcedures

\* step 4/5 when no (encounter_id, diagnosis_id) of the batch is held
ConcurrentDiagnoses ==
    /\ pc = "diagnoses"
    /\ {<<d.encounter_id, d.diagnosis_id>> : d \in Range(batch_diagnoses(CurrentBatch))}
          \cap Held("encounter_diagnoses", <<"encounter_id", "diagnosis_id">>) = {}
    /\ AssignDiagnoses

NextConcurrent ==
    \/ Launch
    \/ transform
    \/ ConcurrentPatients
    \/ WaitForPatientId
    \/ InsertAfterWait
    \/ ConcurrentEncounters
    \/ ConcurrentProcedures
    \/ ConcurrentDiagnoses
    \/ CreateReports
    \/ CommitBatch
    \/ LoadDone
    \/ LoadRaise
    \/ Switch

\* the longest file two concurrent processes are given
MaxConcurrentRecords == 2

InitConcurrent == Init /\ Len(csv) <= MaxConcurrentRecords

SpecConcurrent == InitConcurrent /\ [][NextConcurrent]_vars

(***************************************************************************)
(* Properties                                                              *)
(***************************************************************************)
LoadOk == [op |-> "load", incremental |-> TRUE, outcome |-> "ok"]

TransformOk == [op |-> "transform", incremental |-> FALSE, outcome |-> "ok"]

\* the last run finished as r
After(r) == pc = "idle" /\ hist # <<>> /\ hist[Len(hist)] = r

\* the last two runs both finished as r
AfterTwo(r) == After(r) /\ Len(hist) >= 2 /\ hist[Len(hist) - 1] = r

\* the study a row of the feed describes: the file name without its extension
Study(row) == SubSeq(row.Image_Index, 1, Len(row.Image_Index) - 4)

LoadedTables == {"patients", "encounters", "procedures", "encounter_diagnoses", "reports"}

\* C1: when two incremental run-loads in a row both succeed on the same
\* file, the second leaves patients, encounters, procedures,
\* encounter_diagnoses and reports as it found them and counts every input
\* record as skipped.
C1_SecondLoadInsertsNothing ==
    AfterTwo(LoadOk) =>
        /\ \A t \in LoadedTables : db[t] = pre[t]
        /\ etl.stats.records_skipped = Len(csv)

\* two successful incremental loads of a three-row file that repeats a study
C1_Witness ==
    /\ AfterTwo(LoadOk)
    /\ Len(csv) = 3
    /\ \E i, j \in 1..Len(csv) : i < j /\ csv[i].Image_Index = csv[j].Image_Index
    /\ \E i, j \in 1..Len(csv) : csv[i].Patient_ID = csv[j].Patient_ID
                                 /\ csv[i].Patient_Age # csv[j].Patient_Age
    /\ \A i \in 1..Len(csv) : \E p \in db.procedures : p.procedure_code = NIH_ \o Study(csv[i])

\* C2: every resolution of an external patient id returns the patient_id
\* the first resolution of that id returned.
C2_IdentityStable ==
    \A x \in DOMAIN etl.patient_map : etl.patient_map[x] = first_resolved[x]

\* C3: a call of _bulk_create_patients creates at most one patient per
\* external id, and no two patient rows ever carry the same correlation token.
C3_OnePatientPerExternalId ==
    /\ \A i, j \in DOMAIN etl.new_patients :
          etl.new_patients[i].contact_email = etl.new_patients[j].contact_email => i = j
    /\ \A p, q \in tx.patients : p.contact_email = q.contact_email => p = q

\* C4: after a run-load that raised in batch k, the committed store holds
\* what it held before the run plus exactly the rows of the records of
\* batches 1..k-1, nothing of batch k is visible, and the loop went no further.
C4_FailedBatchLeavesEarlierBatches ==
    After([op |-> "load", incremental |-> etl.incremental, outcome |-> "raised"]) =>
        LET n == IF etl.batch_num * BATCH_SIZE < Len(etl.df.rows)
                 THEN etl.batch_num * BATCH_SIZE ELSE Len(etl.df.rows)
            done == {etl.df.rows[i] : i \in 1..n}
        IN  /\ tx = db
            /\ etl.batch_num < (Len(etl.df.rows) \div BATCH_SIZE) + 1
            /\ {e.encounter_id : e \in db.encounters} =
                  {e.encounter_id : e \in pre.encounters}
                  \cup {NIH_ \o Study(r) \o _ENC : r \in done}
            /\ {p.procedure_code : p \in db.procedures} =
                  {p.procedure_code : p \in pre.procedures} \cup {NIH_ \o Study(r) : r \in done}
            /\ Cardinality(db.reports) = Cardinality(pre.reports) + n
            /\ {p.contact_email : p \in db.patients} =
                  {p.contact_email : p \in pre.patients}
                  \cup {<<"nih_patient_", r.Patient_ID, "@external.com">> : r \in done}
            /\ \A d \in db.encounter_diagnoses \ pre.encounter_diagnoses :
                  \E r \in done : d.encounter_id = NIH_ \o Study(r) \o _ENC

\* a load that committed its first batch and raised in the second, after
\* the second had created a patient
C4_Witness ==
    /\ After([op |-> "load", incremental |-> etl.incremental, outcome |-> "raised"])
    /\ etl.batch_num = 1
    /\ Len(etl.df.rows) > BATCH_SIZE
    /\ etl.stats.patients_created > Cardinality(db.patients \ pre.patients)
    /\ db.encounters # pre.encounters

\* C5: with incremental=True, transform keeps exactly the rows of the file
\* whose key NIH_<study> is not a procedure code of the store, in file order,
\* counts the others as skipped, and writes nothing.
C5_FilterIsSetDifference ==
    [][(pc = "transform" /\ etl.incremental) =>
          LET existing == {p.procedure_code : p \in db.procedures}
              keep == SelectSeq(csv, LAMBDA row : (NIH_ \o Study(row)) \notin existing)
          IN  /\ Len(etl'.df.rows) = Len(keep)
              /\ \A i \in 1..Len(keep) :
                    /\ etl'.df.rows[i].Image_Index = keep[i].Image_Index
                    /\ etl'.df.rows[i].Patient_ID = keep[i].Patient_ID
                    /\ etl'.df.rows[i].Patient_Age = keep[i].Patient_Age
              /\ etl'.stats.records_skipped = Len(csv) - Len(keep)
              /\ etl'.stats.records_processed + etl'.stats.records_skipped = Len(csv)
              /\ db' = db
              /\ tx' = tx]_vars

\* the filter removed some rows of the file and kept others
C5_Witness ==
    /\ pc = "load"
    /\ etl.incremental
    /\ etl.batch_num = 0
    /\ etl.stats.records_skipped > 0
    /\ etl.stats.records_processed > 0

\* C6: within patients, within diagnoses and within encounters, distinct
\* ids have distinct integers after the non-digits are stripped.
C6_KeyMappingInjective ==
    /\ \A a, b \in db.patients :
          KeyToInt(a.patient_id) = KeyToInt(b.patient_id) => a.patient_id = b.patient_id
    /\ \A a, b \in db.diagnoses :
          KeyToInt(a.diagnosis_id) = KeyToInt(b.diagnosis_id) => a.diagnosis_id = b.diagnosis_id
    /\ \A a, b \in db.encounters :
          KeyToInt(a.encounter_id) = KeyToInt(b.encounter_id) => a.encounter_id = b.encounter_id

\* the dim_patient row of an operational patient id, if any
DimOf(patient_id) == {d \in db.dim_patient : d.patient_id = KeyToInt(patient_id)}

\* C7: after a successful run-transform, fact_encounters has as many rows
\* as there are encounters whose patient has a dim_patient row, one for each.
C7_OneFactRowPerEncounter ==
    After(TransformOk) =>
        LET joined == {e \in db.encounters : DimOf(e.patient_id) # {}}
        IN  /\ Cardinality(db.fact_encounters) = Cardinality(joined)
            /\ \A e \in joined :
                  Cardinality({f \in db.fact_encounters :
                                  /\ f.encounter_id = KeyToInt(e.encounter_id)
                                  /\ \E d \in DimOf(e.patient_id) :
                                        f.patient_key = d.patient_key}) = 1

\* C8: right after populate_dim_time, dim_time holds one row for each day
\* from the earliest to the latest encounter date and no other, keyed by the
\* day's YYYYMMDD; without encounters it is empty.
C8_TimeDimensionComplete ==
    pc = "dim_patient" =>
        LET dates == {e.encounter_date : e \in db.encounters}
        IN  IF dates = {} THEN db.dim_time = {}
            ELSE \E lo \in dates, hi \in dates :
                    /\ \A d \in dates : lo <= d /\ d <= hi
                    /\ {t.full_date : t \in db.dim_time} = lo..hi
                    /\ Cardinality(db.dim_time) = (hi - lo) + 1
                    /\ \A t \in db.dim_time :
                          LET c == CalendarDate(t.full_date)
                          IN  t.date_id = (c.year * 10000) + (c.month * 100) + c.day

\* the range crosses 29 February and contains a day without encounters
C8_Witness ==
    /\ pc = "dim_patient"
    /\ \E t \in db.dim_time : t.date_id = 20240229
    /\ \E t \in db.dim_time : \A e \in db.encounters : e.encounter_date # t.full_date
    /\ Cardinality(db.dim_time) >= 4

\* C9: after a successful run-transform, every fact row's patient_key and
\* date_id, and every bridge row's keys, are keys of existing rows.
C9_ReferentialIntegrity ==
    After(TransformOk) =>
        /\ \A f \in db.fact_encounters :
              /\ \E d \in db.dim_patient : d.patient_key = f.patient_key
              /\ \E t \in db.dim_time : t.date_id = f.date_id
        /\ \A b \in db.bridge_encounter_procedures :
              /\ \E f \in db.fact_encounters : f.encounter_key = b.encounter_key
              /\ \E d \in db.dim_procedure : d.procedure_key = b.procedure_key
        /\ \A b \in db.bridge_encounter_diagnoses :
              /\ \E f \in db.fact_encounters : f.encounter_key = b.encounter_key
              /\ \E d \in db.dim_diagnosis : d.diagnosis_key = b.diagnosis_key

\* a populated warehouse: fact rows and rows in both bridges
C9_Witness ==
    /\ After(TransformOk)
    /\ Cardinality(db.fact_encounters) >= 2
    /\ db.bridge_encounter_procedures # {}
    /\ db.bridge_encounter_diagnoses # {}

\* C10: when two run-transforms in a row succeed with the operational
\* tables unchanged in between, every warehouse table has as many rows
\* after the second as after the first.
C10_RebuildKeepsRowCounts ==
    AfterTwo(TransformOk) =>
        \A t \in WarehouseTables : Cardinality(db[t]) = Cardinality(pre[t])

\* two rebuilds of a warehouse with fact and bridge rows, under new keys
C10_Witness ==
    /\ AfterTwo(TransformOk)
    /\ db.fact_encounters # {}
    /\ db.bridge_encounter_procedures # {}
    /\ db.bridge_encounter_diagnoses # {}
    /\ db.fact_encounters # pre.fact_encounters

QAOk == [op |-> "qa", incremental |-> FALSE, outcome |-> "ok"]

QARaised == [op |-> "qa", incremental |-> FALSE, outcome |-> "raised"]

\* the entry a report holds for predicate idx
EntryOf(report, idx) == report[CHOOSE i \in DOMAIN report : report[i].id = idx]

\* C11: every pass of run-qa's loop records one entry for its predicate:
\* PASS exactly when the query ran and returned no row, FAIL exactly when it
\* ran and returned at least one row, with all of its rows as the evidence,
\* ERROR exactly when executing it raised, with the message as the evidence
\* and the connection rolled back to the committed state.
C11_StatusFollowsOutcome ==
    [][(pc = "qa" /\ Len(qa'.results) = Len(qa.results) + 1) =>
          LET r == qa'.results[Len(qa'.results)]
              rows == _load_queries(r.id, tx)
              raised == qa'.exception # "none"
          IN  /\ r.status \in {"PASS", "FAIL", "ERROR"}
              /\ (r.status = "PASS") <=> (~raised /\ rows = {})
              /\ (r.status = "FAIL") <=> (~raised /\ rows # {})
              /\ (r.status = "ERROR") <=> raised
              /\ r.status = "PASS" => r.output.rows = {}
              /\ r.status = "FAIL" => r.output.rows = rows
              /\ r.status = "ERROR" => r.output.text = "str(e)" /\ tx' = db]_vars

\* a finished report with a PASS entry, a FAIL entry holding its rows and an
\* ERROR entry
C11_Witness ==
    /\ After(QAOk)
    /\ \E i \in DOMAIN qa.written : qa.written[i].status = "PASS"
    /\ \E i \in DOMAIN qa.written : /\ qa.written[i].status = "FAIL"
                                    /\ qa.written[i].output.rows # {}
    /\ \E i \in DOMAIN qa.written : qa.written[i].status = "ERROR"

\* C12: a run-qa that got its connection evaluates the seven predicates in
\* the order 1, 2, 3, 5, 6, 7, 9 and writes a report of exactly one entry per
\* predicate, whichever of them end FAIL or ERROR; an entry that is FAIL or
\* ERROR is followed by the remaining predicates, and no run that recorded an
\* entry ends with an exception at the caller.
C12_AllPredicatesReported ==
    LET order == <<1, 2, 3, 5, 6, 7, 9>>
    IN  /\ Len(qa.results) <= 7
        /\ \A i \in DOMAIN qa.results : qa.results[i].id = order[i]
        /\ (pc = "qa" /\ Len(qa.results) < 7) => ENABLED ExecuteQuery
        /\ (pc = "qa" /\ Len(qa.results) = 7) => ENABLED write_summary
        /\ After(QAOk) =>
              /\ qa.written = qa.results
              /\ Len(qa.written) = 7
              /\ \A i \in DOMAIN qa.written :
                    qa.written[i].status \in {"PASS", "FAIL", "ERROR"}
        /\ After(QARaised) => qa.results = <<>>

\* a finished report of seven entries in which an ERROR entry is followed by
\* later entries, one of them FAIL
C12_Witness ==
    /\ After(QAOk)
    /\ Len(qa.written) = 7
    /\ \E i, j \in DOMAIN qa.written :
          /\ i < j
          /\ qa.written[i].status = "ERROR"
          /\ qa.written[j].status = "FAIL"

\* the operational tables hold two patients and three encounters, patient A
\* on 2024-01-01 and 2024-01-03 and patient B on 2024-01-02, each encounter
\* with one procedure and one diagnosis, a primary one
TwoPatientsThreeEncounters ==
    /\ Cardinality(db.patients) = 2
    /\ Cardinality(db.encounters) = 3
    /\ \E a, b \in db.patients :
          /\ a # b
          /\ {<<e.patient_id, CalendarDate(e.encounter_date)>> : e \in db.encounters} =
                {<<a.patient_id, [year |-> 2024, month |-> 1, day |-> 1]>>,
                 <<b.patient_id, [year |-> 2024, month |-> 1, day |-> 2]>>,
                 <<a.patient_id, [year |-> 2024, month |-> 1, day |-> 3]>>}
    /\ Cardinality(db.procedures) = 3
    /\ Cardinality(db.encounter_diagnoses) = 3
    /\ \A e \in db.encounters :
          /\ \E p \in db.procedures : p.encounter_id = e.encounter_id
          /\ \E d \in db.encounter_diagnoses : d.encounter_id = e.encounter_id /\ d.is_primary

\* C13: a successful run-transform on that store leaves dim_time with the
\* three dates 2024-01-01, 2024-01-02 and 2024-01-03 and nothing else, three
\* fact rows, three procedure bridge rows and three diagnosis bridge rows,
\* each tagged Primary.
C13_ScenarioWarehouse ==
    (After(TransformOk) /\ TwoPatientsThreeEncounters) =>
        /\ {t.date_id : t \in db.dim_time} = {20240101, 20240102, 20240103}
        /\ {CalendarDate(t.full_date) : t \in db.dim_time} =
              {[year |-> 2024, month |-> 1, day |-> d] : d \in 1..3}
        /\ Cardinality(db.dim_time) = 3
        /\ Cardinality(db.fact_encounters) = 3
        /\ Cardinality(db.bridge_encounter_procedures) = 3
        /\ Cardinality(db.bridge_encounter_diagnoses) = 3
        /\ \A b \in db.bridge_encounter_diagnoses : b.diagnosis_type = "Primary"

\* the warehouse built from the two-patient, three-encounter store
C13_Witness ==
    /\ After(TransformOk)
    /\ TwoPatientsThreeEncounters
    /\ Cardinality(db.fact_encounters) = 3

\* two operational encounters share the integer their ids are stripped to,
\* and the warehouse has a fact row under that integer
CollidingEncountersInWarehouse ==
    \E a, b \in db.encounters :
        /\ a # b
        /\ KeyToInt(a.encounter_id) = KeyToInt(b.encounter_id)
        /\ \E f \in db.fact_encounters : f.encounter_id = KeyToInt(a.encounter_id)

\* the (encounter_id, count) rows of the encounter ids a fact table holds
\* more than once
DuplicatedFactIds(facts) ==
    {[column |-> "encounter_id", value |-> k,
      count |-> Cardinality({f \in facts : f.encounter_id = k})] :
        k \in {g.encounter_id : g \in {h \in facts :
                  \E f \in facts : f # h /\ f.encounter_id = h.encounter_id}}}

C15_OperationalRowsKept ==
    [][LET operational == {"patients", "encounters", "procedures", "encounter_diagnoses",
                           "reports", "diagnoses", "facilities"}
       IN  /\ \A t \in operational : db[t] \subseteq db'[t]
           /\ (/\ pc # "idle" /\ pc' = "idle"
               /\ Len(hist') = Len(hist) + 1
               /\ hist'[Len(hist')].op \in {"transform", "qa"}) =>
                  \A t \in operational : db'[t] = pre'[t]]_vars

\* a run-load added encounters and a run-transform then filled the warehouse
C15_Witness ==
    /\ pc = "idle"
    /\ Len(hist) = 2
    /\ hist[1] = LoadOk
    /\ hist[2] = TransformOk
    /\ \E e \in db.encounters : LikeNIH(e.encounter_id)
    /\ \E e \in db.encounters : ~LikeNIH(e.encounter_id)
    /\ db.fact_encounters # {}

\* C16: a run-load that has new records to load while the diagnosis cache or
\* the hospital roster is empty raises no error of its own, and when it
\* succeeds it has added no encounter (empty roster) and no
\* encounter_diagnoses row (empty cache).
C16_EmptyReferenceDataTolerated ==
    (/\ pc = "idle" /\ hist # <<>> /\ hist[Len(hist)].op = "load"
     /\ etl.df.rows # <<>>
     /\ (etl.facility_ids = {} \/ etl.diagnosis_cache = <<>>)) =>
        /\ etl.error = "none"
        /\ hist[Len(hist)].outcome = "ok" =>
              /\ etl.facility_ids = {} => db.encounters = pre.encounters
              /\ etl.diagnosis_cache = <<>> =>
                    db.encounter_diagnoses = pre.encounter_diagnoses

\* the encounter_diagnoses rows of an encounter
DiagnosesOf(id) == {d \in db.encounter_diagnoses : d.encounter_id = id}

\* C17: every encounter a run-load created has exactly one
\* encounter_diagnoses row with is_primary true and diagnosis_rank 1,
\* whatever labels its record carries.
C17_OnePrimaryDiagnosis ==
    \A e \in db.encounters :
        LikeNIH(e.encounter_id) =>
            Cardinality({d \in DiagnosesOf(e.encounter_id) :
                            d.is_primary /\ d.diagnosis_rank = 1}) = 1

\* C18: after a successful run-load each counter of the summary equals the
\* number of rows the run added to its table.
C18_CountersMatchRowsAdded ==
    (pc = "idle" /\ hist # <<>> /\ hist[Len(hist)].op = "load"
                 /\ hist[Len(hist)].outcome = "ok") =>
        /\ etl.stats.patients_created = Cardinality(db.patients \ pre.patients)
        /\ etl.stats.encounters_created = Cardinality(db.encounters \ pre.encounters)
        /\ etl.stats.procedures_created = Cardinality(db.procedures \ pre.procedures)
        /\ etl.stats.diagnoses_assigned =
              Cardinality(db.encounter_diagnoses \ pre.encounter_diagnoses)
        /\ etl.stats.reports_created = Cardinality(db.reports \ pre.reports)

\* the largest numeric suffix among the stored patient ids, 5000 without any
MaxSuffix(patients) ==
    LET old == {p.patient_id : p \in patients}
    IN  IF old = {} THEN 5000
        ELSE CHOOSE n \in {KeyToInt(id) : id \in old} : \A id \in old : KeyToInt(id) <= n

\* C19: the ids the patient step of a batch synthesizes are PAT followed by
\* the seven-digit m + 1, m + 2, ... in the order in which the patient
\* records they are made for first appear in the batch, where m is the
\* largest numeric suffix among the stored patient ids, or 5000 when there is
\* none; none of the ids the
\* step may reach is stored already, every synthesized id differs from every
\* stored id and from the others, and afterwards no two stored patients
\* share an id.
C19_SynthesizedIdsFresh ==
    [][/\ pc = "load" =>
              \A i \in 1..Len(CurrentBatch) :
                  \A p \in tx.patients :
                      p.patient_id # PAT \o zfill(NatToStr(MaxSuffix(tx.patients) + i), 7)
       /\ (pc = "load" /\ pc' = "encounters") =>
              LET old == {p.patient_id : p \in tx.patients}
                  m == MaxSuffix(tx.patients)
                  new == etl'.new_patients
              IN  /\ \A i \in DOMAIN new :
                        /\ new[i].patient_id = PAT \o zfill(NatToStr(m + i), 7)
                        /\ new[i].patient_id \notin old
                        /\ \A j \in DOMAIN new : i # j => new[i].patient_id # new[j].patient_id
                  /\ \E row \in [DOMAIN new -> DOMAIN CurrentBatch] :
                        /\ \A i, j \in DOMAIN new : i < j => row[i] < row[j]
                        /\ \A i \in DOMAIN new :
                              /\ new[i].contact_email = email(CurrentBatch[row[i]].Patient_ID)
                              /\ \A k \in 1..(row[i] - 1) :
                                    \/ CurrentBatch[k].Patient_ID # CurrentBatch[row[i]].Patient_ID
                                    \/ CurrentBatch[k].Patient_Age # CurrentBatch[row[i]].Patient_Age
                                    \/ CurrentBatch[k].Patient_Gender #
                                          CurrentBatch[row[i]].Patient_Gender
                  /\ tx'.patients = tx.patients \cup {new[i] : i \in DOMAIN new}
                  /\ \A a, b \in tx'.patients : a.patient_id = b.patient_id => a = b]_vars

\* the second batch of a run synthesized a patient on top of the stored ones
\* and of the two the first batch had synthesized
C19_Witness ==
    /\ pc = "encounters"
    /\ Len(etl.new_patients) >= 1
    /\ etl.batch_num = 1
    /\ Cardinality(tx.patients \ pre.patients) >= 3
    /\ pre.patients # {}

\* the labels of the record a loaded encounter came from
LabelsOf(id) ==
    LET row == CHOOSE c \in CsvRows : NIH_ \o Study(c) \o _ENC = id
    IN  diagnosis_list(row.Finding_Labels)

\* C20: every encounter a run-load created has at most three
\* encounter_diagnoses rows, no two for the same diagnosis; the rank of each
\* row is the position, among the first three labels of the record, of a
\* label that maps to the row's diagnosis, and is_primary holds exactly when
\* the rank is 1.
C20_RanksFollowLabelPositions ==
    \A e \in db.encounters :
        LikeNIH(e.encounter_id) =>
            LET rows == DiagnosesOf(e.encounter_id)
                labels == LabelsOf(e.encounter_id)
            IN  /\ Cardinality(rows) <= 3
                /\ \A a, b \in rows : a.diagnosis_id = b.diagnosis_id => a = b
                /\ \A d \in rows :
                      /\ d.diagnosis_rank \in 1..3
                      /\ d.diagnosis_rank <= Len(labels)
                      /\ labels[d.diagnosis_rank] \in DOMAIN NIH_TO_ICD10_MAPPING
                      /\ \E g \in db.diagnoses :
                            /\ g.diagnosis_id = d.diagnosis_id
                            /\ g.diagnosis_code =
                                  NIH_TO_ICD10_MAPPING[labels[d.diagnosis_rank]]
                      /\ d.is_primary <=> (d.diagnosis_rank = 1)

\* the encounter of a record with four labels, two of them for one
\* diagnosis: a primary row of rank 1 and a row of rank 3
C20_Witness ==
    \E e \in db.encounters :
        /\ LikeNIH(e.encounter_id)
        /\ Len(LabelsOf(e.encounter_id)) = 4
        /\ {d.diagnosis_rank : d \in DiagnosesOf(e.encounter_id)} = {1, 3}

\* the steps of WarehouseETL.run in the order the claim gives them
StageOrder ==
    <<"clear_warehouse", "dim_time", "dim_patient", "dim_procedure", "dim_diagnosis",
      "fact_encounters", "bridge_encounter_procedures", "bridge_encounter_diagnoses">>

\* the position of table t in the list clear_warehouse truncates
TruncatedAt(t) == CHOOSE i \in DOMAIN clear_warehouse_tables : clear_warehouse_tables[i] = t

\* C21: run-transform truncates the seven warehouse tables, bridges before
\* the fact table and the fact table before the dimensions, and commits the
\* truncation before anything is populated; it then populates dim_time,
\* dim_patient, dim_procedure, dim_diagnosis, fact_encounters,
\* bridge_encounter_procedures and bridge_encounter_diagnoses in this order,
\* each stage starting from a committed state, changing its own table only
\* and committing it before the next stage starts.
C21_StagesInOrder ==
    [][/\ pc = "idle" /\ pc' \in {StageOrder[k] : k \in 1..8} => pc' = StageOrder[1]
       /\ \A k \in 1..8 :
             pc = StageOrder[k] =>
                /\ tx = db
                /\ \A j \in (k + 1)..8 : k > 1 => db[StageOrder[j]] = {}
                /\ pc' # "idle" =>
                      /\ pc' = StageOrder[k + 1]
                      /\ db' = tx'
                      /\ k = 1 =>
                            /\ \A j \in 2..8 : db'[StageOrder[j]] = {}
                            /\ \A t \in DOMAIN db \ {StageOrder[j] : j \in 2..8} :
                                  db'[t] = db[t]
                            /\ \A b \in {"bridge_encounter_procedures",
                                         "bridge_encounter_diagnoses"} :
                                  /\ TruncatedAt(b) < TruncatedAt("fact_encounters")
                                  /\ \A d \in {"dim_time", "dim_patient", "dim_procedure",
                                               "dim_diagnosis"} :
                                        TruncatedAt("fact_encounters") < TruncatedAt(d)
                      /\ k > 1 => \A t \in DOMAIN db \ {StageOrder[k]} : db'[t] = db[t]
                /\ (pc' = "idle" /\ k = 8 /\ hist'[Len(hist')].outcome = "ok") =>
                      /\ db' = tx'
                      /\ \A t \in DOMAIN db \ {StageOrder[k]} : db'[t] = db[t]]_vars

\* the fact stage is about to start: the warehouse of the run before is gone,
\* the dimensions are filled and committed, the fact table is empty
C21_Witness ==
    /\ pc = "fact_encounters"
    /\ pre.fact_encounters # {}
    /\ db.fact_encounters = {}
    /\ db.dim_time # {} /\ db.dim_patient # {}
    /\ db.dim_procedure # {} /\ db.dim_diagnosis # {}

\* the operational encounters a fact row stands for: same integer id, same
\* day, same patient
EncountersOf(f) ==
    {e \in db.encounters :
        /\ KeyToInt(e.encounter_id) = f.encounter_id
        /\ f.date_id = (CalendarDate(e.encounter_date).year * 10000
                        + CalendarDate(e.encounter_date).month * 100
                        + CalendarDate(e.encounter_date).day)
        /\ \E d \in DimOf(e.patient_id) : d.patient_key = f.patient_key}

\* C22: after a successful run-transform every fact row stands for an
\* operational encounter whose numbers of procedures, encounter_diagnoses and
\* reports rows are the row's procedure_count, diagnosis_count and
\* report_count.
C22_CountsMatchOperationalRows ==
    After(TransformOk) =>
        \A f \in db.fact_encounters :
            \E e \in EncountersOf(f) :
                /\ f.procedure_count =
                      Cardinality({p \in db.procedures : p.encounter_id = e.encounter_id})
                /\ f.diagnosis_count =
                      Cardinality({d \in db.encounter_diagnoses :
                                      d.encounter_id = e.encounter_id})
                /\ f.report_count =
                      Cardinality({r \in db.reports : r.encounter_id = e.encounter_id})

\* a warehouse with a fact row whose three counts all exceed one and a fact
\* row without procedures and reports
C22_Witness ==
    /\ After(TransformOk)
    /\ \E f \in db.fact_encounters :
          f.procedure_count > 1 /\ f.diagnosis_count > 1 /\ f.report_count > 1
    /\ \E f \in db.fact_encounters :
          f.procedure_count = 0 /\ f.diagnosis_count = 1 /\ f.report_count = 0

\* a date as the integer YYYYMMDD
Ymd(n) == CalendarDate(n).year * 10000 + CalendarDate(n).month * 100 + CalendarDate(n).day

\* the bucket the claim gives for an age
BucketOf(age) ==
    CASE age < 18 -> "Pediatric"
      [] age \in 18..35 -> "Young Adult"
      [] age \in 36..55 -> "Middle Age"
      [] age \in 56..75 -> "Senior"
      [] OTHER -> "Elderly"

\* C23: right after populate_dim_patient there is exactly one dim_patient row
\* for each operational patient; its age is the number of whole years from
\* the patient's date of birth to the patient's earliest encounter date and
\* its age_group is the bucket of that age.
C23_AgeAtFirstEncounter ==
    pc = "dim_procedure" =>
        /\ Cardinality(db.dim_patient) = Cardinality(db.patients)
        /\ \A p \in db.patients :
              /\ Cardinality(DimOf(p.patient_id)) = 1
              /\ \A d \in DimOf(p.patient_id) :
                    LET dates == {e.encounter_date :
                                     e \in {x \in db.encounters : x.patient_id = p.patient_id}}
                    IN  /\ dates # {}
                        /\ \E first \in dates :
                              /\ \A x \in dates : first <= x
                              /\ d.age = <<(Ymd(first) - Ymd(p.date_of_birth)) \div 10000>>
                              /\ d.age_group = BucketOf(d.age[1])

\* the fact rows that stand for the operational encounter with this id
FactRowsOf(id) ==
    {f \in db.fact_encounters : \E e \in EncountersOf(f) : e.encounter_id = id}

\* C24: after a successful run-transform each operational procedures row has
\* exactly one row in bridge_encounter_procedures, which pairs the fact row
\* of the procedure's own encounter with the procedure's dimension row, and
\* the bridge has no other row; each encounter_diagnoses row has exactly one
\* row in bridge_encounter_diagnoses, which pairs the fact row of its own
\* encounter with its diagnosis dimension row and is tagged Primary when
\* is_primary is true and Secondary otherwise, and the bridge has no other
\* row.
C24_BridgesMirrorOperationalRows ==
    After(TransformOk) =>
        /\ Cardinality(db.bridge_encounter_procedures) = Cardinality(db.procedures)
        /\ \A p \in db.procedures :
              Cardinality({b \in db.bridge_encounter_procedures :
                  /\ \E f \in FactRowsOf(p.encounter_id) : f.encounter_key = b.encounter_key
                  /\ \E d \in db.dim_procedure :
                        /\ d.procedure_key = b.procedure_key
                        /\ d.procedure_id = p.procedure_id}) = 1
        /\ Cardinality(db.bridge_encounter_diagnoses) = Cardinality(db.encounter_diagnoses)
        /\ \A a \in db.encounter_diagnoses :
              Cardinality({b \in db.bridge_encounter_diagnoses :
                  /\ \E f \in FactRowsOf(a.encounter_id) : f.encounter_key = b.encounter_key
                  /\ \E d \in db.dim_diagnosis :
                        /\ d.diagnosis_key = b.diagnosis_key
                        /\ d.diagnosis_id = KeyToInt(a.diagnosis_id)
                  /\ b.diagnosis_type = (IF a.is_primary THEN "Primary" ELSE "Secondary")}) = 1

\* C25: when run-qa follows a successful run-transform, every predicate of
\* the report that could be executed returned no row and is PASS.
C25_FreshWarehousePassesQA ==
    (After(QAOk) /\ Len(hist) >= 2 /\ hist[Len(hist) - 1] = TransformOk) =>
        \A i \in DOMAIN qa.written :
            qa.written[i].status # "ERROR" =>
                /\ qa.written[i].status = "PASS"
                /\ qa.written[i].output.rows = {}

\* the last run was a run-load that succeeded
AfterLoadOk ==
    /\ pc = "idle" /\ hist # <<>>
    /\ hist[Len(hist)].op = "load" /\ hist[Len(hist)].outcome = "ok"

\* the encounter ids of the records the last run-load passed to load(), one
\* entry per record
LoadedIds == [i \in DOMAIN etl.df.rows |-> NIH_ \o Study(etl.df.rows[i]) \o _ENC]

\* C26: a successful run-load leaves every patients, encounters, procedures
\* and encounter_diagnoses row it found in place; for a record whose
\* encounter is already stored, or is loaded by an earlier record of the
\* same input, it adds no encounter, no procedure, no diagnosis row and no
\* patient, and it adds one reports row to the encounter for every record of
\* the input, loaded before or not.
C26_ReloadAddsOnlyReports ==
    AfterLoadOk =>
        LET ids == {LoadedIds[i] : i \in DOMAIN LoadedIds}
            known == {e.encounter_id : e \in pre.encounters}
        IN  /\ \A t \in {"patients", "encounters", "procedures", "encounter_diagnoses",
                         "reports"} : pre[t] \subseteq db[t]
            /\ Cardinality(db.encounters \ pre.encounters) = Cardinality(ids \ known)
            /\ Cardinality(db.procedures \ pre.procedures) = Cardinality(ids \ known)
            /\ \A e \in db.encounters \ pre.encounters : e.encounter_id \in ids \ known
            /\ \A p \in db.procedures \ pre.procedures : p.encounter_id \in ids \ known
            /\ \A d \in db.encounter_diagnoses \ pre.encounter_diagnoses :
                  d.encounter_id \in ids \ known
            /\ \A p \in db.patients \ pre.patients :
                  \A q \in pre.patients : q.contact_email # p.contact_email
            /\ \A x \in ids :
                  Cardinality({r \in db.reports \ pre.reports : r.encounter_id = x}) =
                     Cardinality({i \in DOMAIN LoadedIds : LoadedIds[i] = x})
            /\ \A r \in db.reports \ pre.reports : r.encounter_id \in ids

\* a second run-load with the filter off over a feed that names one study
\* twice: three more reports and nothing else
C26_Witness ==
    /\ AfterLoadOk
    /\ Len(hist) = 2 /\ hist[1].op = "load" /\ hist[1].outcome = "ok"
    /\ Len(etl.df.rows) = 3
    /\ \E i, j \in DOMAIN LoadedIds : i < j /\ LoadedIds[i] = LoadedIds[j]
    /\ Cardinality(db.reports \ pre.reports) = 3
    /\ \A t \in {"patients", "encounters", "procedures", "encounter_diagnoses"} :
          db[t] = pre[t]

\* the last run was a run-transform that raised
TransformRaised ==
    /\ pc = "idle" /\ hist # <<>>
    /\ hist[Len(hist)].op = "transform" /\ hist[Len(hist)].outcome = "raised"

\* C27: when population stage k of run-transform raises, the run ends with
\* the exception recorded for the caller and the connection rolled back to
\* the committed content; the tables of the stages before k hold what those
\* stages wrote in this run, the tables of stage k and of every later stage
\* are empty whatever they held before the run, and no other table changed.
C27_FailedStageLeavesEarlierStages ==
    [][\A k \in 2..8 :
          (pc = StageOrder[k] /\ pc' = "idle" /\ hist'[Len(hist')].outcome = "raised") =>
             /\ hist' = Append(hist, [op |-> "transform", incremental |-> FALSE,
                                      outcome |-> "raised"])
             /\ tx' = db'
             /\ \A j \in 2..(k - 1) : db'[StageOrder[j]] = tx[StageOrder[j]]
             /\ \A j \in k..8 : db'[StageOrder[j]] = {}
             /\ \A t \in DOMAIN db \ {StageOrder[j] : j \in 2..8} : db'[t] = db[t]]_vars

\* a run-transform over a populated warehouse raised after the dimensions
\* were rebuilt: the old fact and bridge rows are gone, the new dimension
\* rows are in place
C27_Witness ==
    /\ TransformRaised
    /\ tx = db
    /\ pre.fact_encounters # {} /\ pre.bridge_encounter_procedures # {}
    /\ db.encounters # {} /\ db.procedures # {}
    /\ db.dim_time # {} /\ db.dim_patient # {}
    /\ db.dim_procedure # {} /\ db.dim_diagnosis # {}
    /\ db.fact_encounters = {}
    /\ db.bridge_encounter_procedures = {} /\ db.bridge_encounter_diagnoses = {}

\* the rows a store holds for one record of the feed
EncounterRows(store, row) ==
    {e \in store.encounters : e.encounter_id = encounter_id(row)}

ProcedureRows(store, row) ==
    {p \in store.procedures : /\ p.encounter_id = encounter_id(row)
                              /\ p.procedure_code = nih_procedure_code(row)}

ReportRows(store, row) ==
    {r \in store.reports : r.encounter_id = encounter_id(row)}

\* every record of the feed is in the committed store with its encounter,
\* its procedure and a report, or with none of them
AllOrNothing ==
    \A i \in DOMAIN csv :
        /\ EncounterRows(db, csv[i]) # {} <=> ProcedureRows(db, csv[i]) # {}
        /\ EncounterRows(db, csv[i]) # {} <=> ReportRows(db, csv[i]) # {}

\* a run-load raised and the incremental run-load after it succeeded
AfterRetry ==
    /\ After(LoadOk) /\ Len(hist) = 2
    /\ hist[1].op = "load" /\ hist[1].outcome = "raised"

\* the retry found the first m batches of the feed committed and nothing
\* else of it, passed exactly the later records to load(), in feed order,
\* and left one encounter, one procedure and one report per record
RetryCompletes ==
    /\ \E m \in 0..total_batches(csv) :
          LET done == IF m * BATCH_SIZE < Len(csv) THEN m * BATCH_SIZE ELSE Len(csv)
          IN  /\ \A i \in DOMAIN csv : EncounterRows(pre, csv[i]) # {} <=> i <= done
              /\ Len(etl.df.rows) = Len(csv) - done
              /\ \A i \in DOMAIN etl.df.rows :
                    etl.df.rows[i].Image_Index = csv[done + i].Image_Index
    /\ \A i \in DOMAIN csv :
          /\ Cardinality(EncounterRows(db, csv[i])) = 1
          /\ Cardinality(ProcedureRows(db, csv[i])) = 1
          /\ Cardinality(ReportRows(db, csv[i])) = 1

\* no image index occurs twice in the feed
DistinctImages == \A i, j \in DOMAIN csv : csv[i].Image_Index = csv[j].Image_Index => i = j

\* C28: in every committed state each record of the feed has its encounter,
\* procedure and report rows or none of them; and when the feed names every
\* image once, the incremental run-load that follows a run aborted in batch k
\* skips exactly the records of batches 1..k-1, loads exactly the others and
\* ends with one encounter, one procedure and one report per record.
C28_BatchesAtomicRetryCompletes ==
    /\ AllOrNothing
    /\ (AfterRetry /\ DistinctImages) => RetryCompletes

\* C28 as stated, for every feed
C28_RetryCompletesAnyFeed ==
    /\ AllOrNothing
    /\ AfterRetry => RetryCompletes

\* a run aborted in its second batch, and the retry loaded the third record
\* after skipping the first two
C28_Witness ==
    /\ AfterRetry /\ DistinctImages
    /\ Len(csv) = 3
    /\ EncounterRows(pre, csv[1]) # {} /\ EncounterRows(pre, csv[3]) = {}
    /\ Len(etl.df.rows) = 1
    /\ ReportRows(db, csv[3]) # {}

\* ceil(n / BATCH_SIZE)
CeilBatches(n) == (n + BATCH_SIZE - 1) \div BATCH_SIZE

\* C29: load cuts the N >= 1 records it is given into consecutive slices of
\* BATCH_SIZE records in feed order, the last one possibly shorter; every
\* batch transaction works on the next slice, which is never empty, and is
\* committed before the following one starts; a load that ends normally has
\* performed exactly ceil(N / BATCH_SIZE) batch transactions.
C29_CeilBatchesNoneEmpty ==
    [][/\ (pc = "commit" /\ pc' = "load") =>
             LET N == Len(etl.df.rows)
                 first == (etl.batch_num * BATCH_SIZE) + 1
                 last == IF first + BATCH_SIZE - 1 < N THEN first + BATCH_SIZE - 1 ELSE N
             IN  /\ N >= 1
                 /\ first <= last
                 /\ CurrentBatch = [i \in 1..(last - first + 1) |-> etl.df.rows[first + i - 1]]
                 /\ last < N => Len(CurrentBatch) = BATCH_SIZE
                 /\ db' = tx
                 /\ etl'.batch_num = etl.batch_num + 1
       /\ (pc = "load" /\ pc' = "idle" /\ hist'[Len(hist')].outcome = "ok") =>
             etl.batch_num = CeilBatches(Len(etl.df.rows))]_vars

\* both concurrent run-loads have ended
BothEnded == pc = "idle" /\ other.pc = "idle" /\ Len(hist) = 2

\* a record of the file passed the filter of both processes
PassedBoth(row) ==
    /\ \E i \in DOMAIN etl.df.rows : etl.df.rows[i].Image_Index = row.Image_Index
    /\ \E i \in DOMAIN other.etl.df.rows : other.etl.df.rows[i].Image_Index = row.Image_Index

\* C30: with two run-loads running at once on one store and one file,
\* encounters never holds two rows with one encounter_id and procedures
\* never two rows with one (encounter_id, procedure_code); and when both
\* have ended and a record passed the filter of both, the record was loaded
\* twice, leaving two or more reports rows for its encounter, unless one of
\* the two aborted.
C30_ConcurrentLoadsDuplicateReports ==
    /\ \A e1, e2 \in db.encounters : e1.encounter_id = e2.encounter_id => e1 = e2
    /\ \A p1, p2 \in db.procedures :
          (p1.encounter_id = p2.encounter_id /\ p1.procedure_code = p2.procedure_code)
             => p1 = p2
    /\ BothEnded =>
          \A i \in DOMAIN csv :
              PassedBoth(csv[i]) =>
                  \/ Cardinality(ReportRows(db, csv[i])) >= 2
                  \/ \E k \in DOMAIN hist : hist[k].outcome = "raised"

\* two incremental run-loads on a file without repeats both read the key
\* set before either committed, both loaded the same record and both ended
\* normally: one encounter, one procedure, two reports
C30_Witness ==
    /\ BothEnded /\ DistinctImages
    /\ hist[1] = LoadOk /\ hist[2] = LoadOk
    /\ etl.incremental /\ other.etl.incremental
    /\ \E i \in DOMAIN csv :
          /\ PassedBoth(csv[i])
          /\ Cardinality(ReportRows(db, csv[i])) = 2
          /\ Cardinality(EncounterRows(db, csv[i])) = 1
          /\ Cardinality(ProcedureRows(db, csv[i])) = 1
====
